---- MODULE Spec2Model ----
(***************************************************************************)
(* Transaction synchronisation and categorisation engine of the            *)
(* plaid-fire-react server (src/server/server.js and its route modules).   *)
(*                                                                         *)
(* Strings are TLA+ strings; toLowerCase and String.includes are computed  *)
(* character by character.  Timestamps written with serverTimestamp()      *)
(* (updatedAt, createdAt) are not part of the records: no handler reads    *)
(* them.  lastSyncAt is kept as the ordinal of the sync commit.            *)
(***************************************************************************)
EXTENDS Integers, Sequences, FiniteSets, TLC

(***************************************************************************)
(* Bounds of the model.                                                    *)
(***************************************************************************)
MaxCats == 2
MaxPages == 2
MaxReqs == 3

(***************************************************************************)
(* JavaScript values.                                                      *)
(***************************************************************************)
Undefined == "#undefined"
Null == "#null"
\* null or absent category id (falsy); category document ids are 1..MaxCats
NoCat == 0

Falsy(v) == v \in {Undefined, Null, ""}

\* `${v}` of a template literal
TemplateStr(v) ==
  IF v = Undefined THEN "undefined" ELSE IF v = Null THEN "null" ELSE v

\* v || ''
OrEmpty(v) == IF Falsy(v) THEN "" ELSE v

\* v || null
OrNull(v) == IF Falsy(v) THEN Null ELSE v

\* the lower-case letter of each upper-case letter
LowerOf ==
  [A |-> "a", B |-> "b", C |-> "c", D |-> "d", E |-> "e", F |-> "f", G |-> "g",
   H |-> "h", I |-> "i", J |-> "j", K |-> "k", L |-> "l", M |-> "m", N |-> "n",
   O |-> "o", P |-> "p", Q |-> "q", R |-> "r", S |-> "s", T |-> "t", U |-> "u",
   V |-> "v", W |-> "w", X |-> "x", Y |-> "y", Z |-> "z"]

LowerChar(c) == IF c \in DOMAIN LowerOf THEN LowerOf[c] ELSE c

\* the characters of s from position k on, in lower case
RECURSIVE LowerFrom(_, _)
LowerFrom(s, k) ==
  IF k > Len(s) THEN ""
  ELSE LowerChar(SubSeq(s, k, k)) \o LowerFrom(s, k + 1)

\* s.toLowerCase()
ToLowerCase(s) == LowerFrom(s, 1)

\* s.includes(k)
Includes(s, k) ==
  \E i \in 0..(Len(s) - Len(k)) : SubSeq(s, i + 1, i + Len(k)) = k

(***************************************************************************)
(* Categorisation (recategorizeAllTransactions and the sync handler hold   *)
(* the same two closures over the loaded category list).                   *)
(*                                                                         *)
(* A category of the loaded list is [id, name, keywords]; NoMatch is the   *)
(* null result.                                                            *)
(***************************************************************************)
NoMatch == [id |-> NoCat, name |-> Null, keywords |-> <<>>]

plaidMappings ==
  << [plaidCat |-> "FOOD_AND_DRINK",
      keywords |-> <<"food", "restaurant", "dining", "grocery">>],
     [plaidCat |-> "TRANSPORTATION",
      keywords |-> <<"gas", "uber", "lyft", "transit", "parking">>],
     [plaidCat |-> "ENTERTAINMENT",
      keywords |-> <<"movie", "theater", "concert", "game">>],
     [plaidCat |-> "SHOPPING",
      keywords |-> <<"amazon", "store", "retail", "mall">>],
     [plaidCat |-> "BILLS_AND_UTILITIES",
      keywords |-> <<"utility", "electric", "water", "internet", "phone">>],
     [plaidCat |-> "HEALTHCARE",
      keywords |-> <<"medical", "doctor", "pharmacy", "hospital">>],
     [plaidCat |-> "EDUCATION",
      keywords |-> <<"school", "tuition", "book", "course">>],
     [plaidCat |-> "TRAVEL",
      keywords |-> <<"hotel", "flight", "vacation", "trip">>] >>

searchTextOf(transactionName, merchantName) ==
  ToLowerCase(TemplateStr(transactionName) \o " " \o OrEmpty(merchantName))

\* the inner loop: for (const keyword of category.keywords) from index k
RECURSIVE KeywordLoop(_, _, _)
KeywordLoop(searchText, keywords, k) ==
  IF k > Len(keywords) THEN FALSE
  ELSE IF Includes(searchText, ToLowerCase(keywords[k])) THEN TRUE
  ELSE KeywordLoop(searchText, keywords, k + 1)

\* CategoryLoop that keeps looking and lets the last matching category win
RECURSIVE CategoryLoopLast(_, _, _)
CategoryLoopLast(searchText, categories, i) ==
  IF i > Len(categories) THEN NoMatch
  ELSE LET later == CategoryLoopLast(searchText, categories, i + 1)
       IN IF later.id # NoCat THEN later
          ELSE IF Len(categories[i].keywords) > 0
                  /\ KeywordLoop(searchText, categories[i].keywords, 1)
               THEN categories[i]
          ELSE NoMatch

\* the outer loop: for (const category of categories) from index i
RECURSIVE CategoryLoop(_, _, _)
CategoryLoop(searchText, categories, i) ==
  IF i > Len(categories) THEN NoMatch
  ELSE IF Len(categories[i].keywords) > 0
          /\ KeywordLoop(searchText, categories[i].keywords, 1)
       THEN categories[i]
  ELSE CategoryLoop(searchText, categories, i + 1)

findCategoryByKeywords(categories, transactionName, merchantName) ==
  CategoryLoop(searchTextOf(transactionName, merchantName), categories, 1)

\* SomeGeneric without the toLowerCase() of the keyword
SomeGenericCaseSensitive(generic, keyword) ==
  \E j \in 1..Len(generic) : Includes(keyword, generic[j])

\* keywords.some(k => keyword.toLowerCase().includes(k))
SomeGeneric(generic, keyword) ==
  \E j \in 1..Len(generic) : Includes(ToLowerCase(keyword), generic[j])

RECURSIVE BucketKeywordLoop(_, _, _)
BucketKeywordLoop(generic, keywords, k) ==
  IF k > Len(keywords) THEN FALSE
  ELSE IF SomeGeneric(generic, keywords[k]) THEN TRUE
  ELSE BucketKeywordLoop(generic, keywords, k + 1)

RECURSIVE BucketCategoryLoop(_, _, _)
BucketCategoryLoop(generic, categories, i) ==
  IF i > Len(categories) THEN NoMatch
  ELSE IF Len(categories[i].keywords) > 0
          /\ BucketKeywordLoop(generic, categories[i].keywords, 1)
       THEN categories[i]
  ELSE BucketCategoryLoop(generic, categories, i + 1)

\* for (const [plaidCat, keywords] of Object.entries(plaidMappings)) from b
RECURSIVE MappingLoop(_, _, _)
MappingLoop(pfCategory, categories, b) ==
  IF b > Len(plaidMappings) THEN NoMatch
  ELSE LET hit == IF Includes(pfCategory, plaidMappings[b].plaidCat)
                  THEN BucketCategoryLoop(plaidMappings[b].keywords, categories, 1)
                  ELSE NoMatch
       IN IF hit.id # NoCat THEN hit
          ELSE MappingLoop(pfCategory, categories, b + 1)

findCategoryByPlaidCategory(categories, pfCategory) ==
  IF Falsy(pfCategory) THEN NoMatch
  ELSE MappingLoop(pfCategory, categories, 1)

\* assignedCategoryOf with the provider-category fallback consulted first
assignedCategoryFallbackFirst(categories, transaction) ==
  LET pf == findCategoryByPlaidCategory(categories, transaction.pf_category)
  IN IF pf.id = NoCat
     THEN findCategoryByKeywords(categories, transaction.name,
                                 transaction.merchant_name)
     ELSE pf

\* recategorizeAllTransactions: the matching order for a stored transaction
assignedCategoryOf(categories, transaction) ==
  LET kw == findCategoryByKeywords(categories, transaction.name,
                                   transaction.merchant_name)
  IN IF kw.id = NoCat /\ ~Falsy(transaction.pf_category)
     THEN findCategoryByPlaidCategory(categories, transaction.pf_category)
     ELSE kw

\* the sync handler: the matching order for a provider transaction
syncAssignedCategoryOf(categories, t) ==
  LET kw == findCategoryByKeywords(categories, t.name, t.merchant_name)
  IN IF kw.id = NoCat
     THEN findCategoryByPlaidCategory(categories, t.pf)
     ELSE kw


(***************************************************************************)
(* Documents.  A document is a function from its field names to values; a  *)
(* field that was never written is not in its domain.  A collection is a   *)
(* function from the ids of its documents.                                 *)
(***************************************************************************)
NoFields == [f \in {} |-> 0]
NoDocs == [i \in {} |-> NoFields]

\* numeric null (outflow, inflow)
NullNum == -1

\* doc.field, undefined when the field is absent
Field(doc, f, absent) == IF f \in DOMAIN doc THEN doc[f] ELSE absent

\* set(data, { merge: true }) on the fields of one document; update(data)
Merge(doc, data) ==
  [f \in (DOMAIN doc) \cup (DOMAIN data) |->
     IF f \in DOMAIN data THEN data[f] ELSE doc[f]]

\* ref.set(data, { merge: true }) in a collection: creates the document
SetMerge(col, id, data) ==
  [i \in (DOMAIN col) \cup {id} |->
     IF i = id THEN Merge(IF id \in DOMAIN col THEN col[id] ELSE NoFields, data)
     ELSE col[i]]

\* ref.delete()
Delete(col, id) == [i \in (DOMAIN col) \ {id} |-> col[i]]

Users == {"u1"}
Procs == {1, 2}
CatIds == 1..MaxCats

\* the ids of a collection in the order a collection get() lists them
RECURSIVE SortedIds(_)
SortedIds(ids) ==
  IF ids = {} THEN <<>>
  ELSE LET m == CHOOSE i \in ids : \A j \in ids : i <= j
       IN <<m>> \o SortedIds(ids \ {m})

VARIABLES
  provider,     \* the pages of deltas the provider has published for the item
  cred,         \* users/{uid}/private/plaid, per linked user
  cats,         \* users/{uid}/categories
  budgets,      \* users/{uid}/budgets
  accounts,     \* users/{uid}/accounts
  tx,           \* users/{uid}/transactions
  pc,           \* per request slot: where its handler stands
  rq,           \* per request slot: the request being served
  loc,          \* per request slot: the handler's local variables
  resp,         \* per request slot: the last response sent
  nreq,         \* requests received so far
  m_in,         \* categorisation check: the inputs
  m_out         \* categorisation check: the result

stores == <<cred, cats, budgets, accounts, tx>>
slots == <<pc, rq, loc, resp>>
match == <<m_in, m_out>>
vars == <<provider, cred, cats, budgets, accounts, tx, pc, rq, loc, resp, nreq,
          m_in, m_out>>

\* categoriesSnap.docs.map(doc => ({ id: doc.id, ...doc.data() }))
categoriesOf(u) ==
  LET ids == SortedIds(DOMAIN cats[u])
  IN [k \in 1..Len(ids) |->
        [id |-> ids[k],
         name |-> Field(cats[u][ids[k]], "name", Undefined),
         keywords |-> Field(cats[u][ids[k]], "keywords", <<>>)]]


(***************************************************************************)
(* The transaction provider.  It publishes pages of deltas for the linked  *)
(* item; the cursor it hands out after page n is n, and the cursor 0 is    *)
(* the empty (falsy) cursor of an item with nothing read yet.              *)
(***************************************************************************)
PT1 == [transaction_id |-> "t1", account_id |-> "a1", name |-> "FOOBAR Cafe",
        merchant_name |-> Null, amount |-> 12, pf |-> "FOOD_AND_DRINK"]
PT1m == [transaction_id |-> "t1", account_id |-> "a1", name |-> "Shell Oil",
         merchant_name |-> "SHELL OIL", amount |-> -5, pf |-> "TRANSPORTATION"]
PT2 == [transaction_id |-> "t2", account_id |-> "a2", name |-> Undefined,
        merchant_name |-> "Joe's Diner", amount |-> 0, pf |-> Undefined]

Deltas ==
  { [added |-> <<PT1>>, modified |-> <<>>, removed |-> <<>>],
    [added |-> <<PT2>>, modified |-> <<PT1m>>, removed |-> <<>>],
    [added |-> <<PT2>>, modified |-> <<>>, removed |-> <<"t1">>],
    [added |-> <<>>, modified |-> <<>>, removed |-> <<"t1">>] }

IdsOf(ts) == {ts[i].transaction_id : i \in 1..Len(ts)}
Range(seq) == {seq[i] : i \in 1..Len(seq)}

\* the transactions the item holds upstream after the pages of log
RECURSIVE Upstream(_)
Upstream(log) ==
  IF log = <<>> THEN {}
  ELSE LET d == log[Len(log)]
       IN (Upstream(SubSeq(log, 1, Len(log) - 1)) \ Range(d.removed))
            \cup IdsOf(d.added)

\* the transaction ids the item has ever held
RECURSIVE Seen(_)
Seen(log) ==
  IF log = <<>> THEN {}
  ELSE Seen(SubSeq(log, 1, Len(log) - 1)) \cup IdsOf(log[Len(log)].added)

\* a delta the provider can publish next: it adds transactions under ids it
\* never used and modifies or removes what is upstream
Publishable(log, d) ==
  /\ IdsOf(d.added) \cap Seen(log) = {}
  /\ IdsOf(d.modified) \subseteq Upstream(log)
  /\ Range(d.removed) \subseteq Upstream(log)

\* plaidClient.transactionsSync({ access_token, cursor }): response.data
transactionsSync(log, cursor) ==
  IF cursor < Len(log)
  THEN [added |-> log[cursor + 1].added,
        modified |-> log[cursor + 1].modified,
        removed |-> log[cursor + 1].removed,
        next_cursor |-> cursor + 1,
        has_more |-> cursor + 1 < Len(log)]
  ELSE [added |-> <<>>, modified |-> <<>>, removed |-> <<>>,
        next_cursor |-> cursor, has_more |-> FALSE]

(***************************************************************************)
(* POST /sync-transactions: the batch.                                     *)
(***************************************************************************)
\* syncData with the inflow left with the sign of the provider amount
syncDataSigned(categories, t) ==
  LET assignedCategory == syncAssignedCategoryOf(categories, t)
  IN [account_id |-> t.account_id,
      name |-> OrEmpty(t.name),
      merchant_name |-> OrEmpty(t.merchant_name),
      amount |-> t.amount * 100,
      outflow |-> IF t.amount > 0 THEN t.amount * 100 ELSE NullNum,
      inflow |-> IF t.amount < 0 THEN t.amount * 100 ELSE NullNum,
      pf_category |-> OrNull(t.pf),
      category |-> assignedCategory.id,
      categoryName |-> IF assignedCategory.id # NoCat
                       THEN OrNull(assignedCategory.name) ELSE Null]

\* the document written for one added or modified transaction
syncData(categories, t) ==
  LET assignedCategory == syncAssignedCategoryOf(categories, t)
  IN [account_id |-> t.account_id,
      name |-> OrEmpty(t.name),
      merchant_name |-> OrEmpty(t.merchant_name),
      amount |-> t.amount * 100,
      outflow |-> IF t.amount > 0 THEN t.amount * 100 ELSE NullNum,
      inflow |-> IF t.amount < 0 THEN (-t.amount) * 100 ELSE NullNum,
      pf_category |-> OrNull(t.pf),
      category |-> assignedCategory.id,
      categoryName |-> IF assignedCategory.id # NoCat
                       THEN OrNull(assignedCategory.name) ELSE Null]

\* upsertAll with the document id left to the store (txCol(uid).doc())
RECURSIVE upsertAllAutoId(_, _, _)
upsertAllAutoId(col, categories, ts) ==
  IF ts = <<>> THEN col
  ELSE upsertAllAutoId(
         SetMerge(col, "auto" \o ToString(Cardinality(DOMAIN col)),
                  syncData(categories, ts[1])),
         categories, Tail(ts))

\* upsertAll with batch.set(ref, data): the stored document is replaced
RECURSIVE upsertAllReplace(_, _, _)
upsertAllReplace(col, categories, ts) ==
  IF ts = <<>> THEN col
  ELSE upsertAllReplace(
         [i \in (DOMAIN col) \cup {ts[1].transaction_id} |->
            IF i = ts[1].transaction_id THEN syncData(categories, ts[1])
            ELSE col[i]],
         categories, Tail(ts))

\* batch.set(ref, data, { merge: true }) for each of [...added, ...modified]
RECURSIVE upsertAll(_, _, _)
upsertAll(col, categories, ts) ==
  IF ts = <<>> THEN col
  ELSE upsertAll(SetMerge(col, ts[1].transaction_id, syncData(categories, ts[1])),
                 categories, Tail(ts))

\* markRemoved that deletes the documents (batch.delete(ref))
RECURSIVE markRemovedDelete(_, _)
markRemovedDelete(col, rs) ==
  IF rs = <<>> THEN col
  ELSE markRemovedDelete(Delete(col, rs[1]), Tail(rs))

\* batch.set(ref, { removed: true }, { merge: true }) for each of removed
RECURSIVE markRemoved(_, _)
markRemoved(col, rs) ==
  IF rs = <<>> THEN col
  ELSE markRemoved(SetMerge(col, rs[1], [removed |-> TRUE]), Tail(rs))

\* the transaction collection after the batch of a sync with locals l
syncBatchTx(col, l) ==
  markRemoved(upsertAll(col, l.categories, l.added \o l.modified), l.removed)

\* syncBatchCred that writes lastSyncAt and leaves the cursor out of the batch
syncBatchCredStale(doc, l) ==
  Merge(doc, [lastSyncAt |-> Field(doc, "lastSyncAt", 0) + 1])

\* the credential after the batch: cursor and lastSyncAt, merged
syncBatchCred(doc, l) ==
  Merge(doc, [cursor |-> l.nextCursor,
              lastSyncAt |-> Field(doc, "lastSyncAt", 0) + 1])

(***************************************************************************)
(* recategorizeAllTransactions.                                            *)
(***************************************************************************)
\* recBatch that looks only at the transactions without a stored category
recBatchUnassigned(categories, transactions) ==
  {id \in DOMAIN transactions :
     /\ Field(transactions[id], "category", NoCat) = NoCat
     /\ assignedCategoryOf(categories,
            [name |-> Field(transactions[id], "name", Undefined),
             merchant_name |-> Field(transactions[id], "merchant_name", Undefined),
             pf_category |-> Field(transactions[id], "pf_category", Undefined)]).id
          # NoCat}

\* the ids of the transactions whose category assignment changed
recBatch(categories, transactions) ==
  {id \in DOMAIN transactions :
     Field(transactions[id], "category", NoCat)
       # assignedCategoryOf(categories,
            [name |-> Field(transactions[id], "name", Undefined),
             merchant_name |-> Field(transactions[id], "merchant_name", Undefined),
             pf_category |-> Field(transactions[id], "pf_category", Undefined)]).id}

\* recUpdate that leaves the category id out of the update
recUpdateNameOnly(categories, transaction) ==
  LET assignedCategory ==
        assignedCategoryOf(categories,
            [name |-> Field(transaction, "name", Undefined),
             merchant_name |-> Field(transaction, "merchant_name", Undefined),
             pf_category |-> Field(transaction, "pf_category", Undefined)])
  IN [categoryName |-> IF assignedCategory.id # NoCat
                       THEN OrNull(assignedCategory.name) ELSE Null]

\* batch.update(ref, { category, categoryName }) of one transaction
recUpdate(categories, transaction) ==
  LET assignedCategory ==
        assignedCategoryOf(categories,
            [name |-> Field(transaction, "name", Undefined),
             merchant_name |-> Field(transaction, "merchant_name", Undefined),
             pf_category |-> Field(transaction, "pf_category", Undefined)])
  IN [category |-> assignedCategory.id,
      categoryName |-> IF assignedCategory.id # NoCat
                       THEN OrNull(assignedCategory.name) ELSE Null]

\* the collection after batch.commit(): every update applies to the stored
\* document (transactions is the snapshot the batch was computed from)
recCommitTx(col, categories, transactions) ==
  [id \in DOMAIN col |->
     IF id \in recBatch(categories, transactions)
     THEN Merge(col[id], recUpdate(categories, transactions[id]))
     ELSE col[id]]


(***************************************************************************)
(* Request slots.  A handler runs from its first await to its response;    *)
(* each action below is the code between two awaits.                       *)
(***************************************************************************)
NoReq == [op |-> "none"]
NoResp == [status |-> 0]

\* the category bodies a client posts
CategoryInputs ==
  { [name |-> "Food", keywords |-> <<"foo">>],
    [name |-> "Dining", keywords |-> <<"Restaurant", "OIL", "Diner">>] }

Idle(p) == pc[p] = "idle"

\* a request is received by slot p, or verifyToken has called next() on the
\* request the slot holds
Receive(p) ==
  IF pc[p] = "verified" THEN nreq' = nreq
  ELSE Idle(p) /\ nreq < MaxReqs /\ nreq' = nreq + 1

\* res.status(..).json(..): the handler of slot p is over
Respond(p, r) ==
  /\ pc' = [pc EXCEPT ![p] = "idle"]
  /\ rq' = [rq EXCEPT ![p] = NoReq]
  /\ loc' = [loc EXCEPT ![p] = NoFields]
  /\ resp' = [resp EXCEPT ![p] = r]

\* the handler of slot p goes on at label l with locals l2
Goto(p, l, l2) ==
  /\ pc' = [pc EXCEPT ![p] = l]
  /\ loc' = [loc EXCEPT ![p] = l2]
  /\ UNCHANGED <<rq, resp>>

(***************************************************************************)
(* The provider publishes a page of deltas.                                *)
(***************************************************************************)
ProviderPublish ==
  /\ Len(provider) < MaxPages
  /\ \E d \in Deltas :
       /\ Publishable(provider, d)
       /\ provider' = Append(provider, d)
  /\ UNCHANGED <<stores, slots, nreq, match>>

(***************************************************************************)
(* verifyToken, the middleware in front of every route.                    *)
(***************************************************************************)
\* the ID tokens the identity service has issued, per user
IdTokens == [u \in Users |-> "id-token-" \o u]

\* the Authorization headers clients send: none, another scheme, a token
\* that was never issued, the token of a user
Authorizations ==
  {Undefined, "Basic dXNlcjpwdw==", "Bearer forged"}
    \cup {"Bearer " \o IdTokens[u] : u \in Users}

\* s.startsWith(prefix)
StartsWith(s, prefix) ==
  Len(s) >= Len(prefix) /\ SubSeq(s, 1, Len(prefix)) = prefix

\* s.split(sep)[1] of a string that starts with sep: what stands between
\* the first sep and the next one
SplitSecond(s, sep) ==
  LET rest == SubSeq(s, Len(sep) + 1, Len(s))
      cuts == {i \in 1..(Len(rest) - Len(sep) + 1) :
                 SubSeq(rest, i, i + Len(sep) - 1) = sep}
  IN IF cuts = {} THEN rest
     ELSE SubSeq(rest, 1, (CHOOSE i \in cuts : \A j \in cuts : i <= j) - 1)

\* the routes that read and answer without a write
ReadRoutes ==
  {"POST /create-link-token", "GET /accounts", "GET /budgets",
   "GET /categories", "GET /transactions", "GET /transactions/search"}

\* a request with its Authorization header reaches the server
RequestArrives(p) ==
  /\ Idle(p)
  /\ nreq < MaxReqs
  /\ nreq' = nreq + 1
  /\ \E authHeader \in Authorizations :
       rq' = [rq EXCEPT ![p] = [op |-> "request", authorization |-> authHeader]]
  /\ pc' = [pc EXCEPT ![p] = "auth"]
  /\ UNCHANGED <<loc, resp>>
  /\ UNCHANGED <<provider, stores, match>>

\* the check of the header: absent or not a bearer credential gives 401
VerifyHeader(p) ==
  /\ pc[p] = "auth"
  /\ LET authHeader == rq[p].authorization
     IN IF Falsy(authHeader) \/ ~StartsWith(authHeader, "Bearer ")
        THEN Respond(p, [status |-> 401, error |-> "Unauthorized"])
        ELSE /\ pc' = [pc EXCEPT ![p] = "verify"]
             /\ rq' = [rq EXCEPT ![p] =
                         [op |-> "request",
                          token |-> SplitSecond(authHeader, "Bearer ")]]
             /\ UNCHANGED <<loc, resp>>
  /\ UNCHANGED <<provider, stores, nreq, match>>

\* VerifyIdToken that takes a token nobody issued for the token of a user
VerifyIdTokenAny(p) ==
  /\ pc[p] = "verify"
  /\ \E u \in Users :
       /\ pc' = [pc EXCEPT ![p] = "verified"]
       /\ rq' = [rq EXCEPT ![p] = [op |-> "request", uid |-> u]]
       /\ UNCHANGED <<loc, resp>>
  /\ UNCHANGED <<provider, stores, nreq, match>>

\* admin.auth().verifyIdToken(token): req.user and next(), or 401
VerifyIdToken(p) ==
  /\ pc[p] = "verify"
  /\ IF \E u \in Users : IdTokens[u] = rq[p].token
     THEN /\ pc' = [pc EXCEPT ![p] = "verified"]
          /\ rq' = [rq EXCEPT ![p] =
                      [op |-> "request",
                       uid |-> CHOOSE u \in Users : IdTokens[u] = rq[p].token]]
          /\ UNCHANGED <<loc, resp>>
     ELSE Respond(p, [status |-> 401, error |-> "Invalid token"])
  /\ UNCHANGED <<provider, stores, nreq, match>>

\* a route that reads the provider or the store and answers
ReadRoute(p, u) ==
  /\ Receive(p)
  /\ \E route \in ReadRoutes : Respond(p, [status |-> 200])
  /\ UNCHANGED <<provider, stores, match>>

(***************************************************************************)
(* POST /exchange-public-token                                             *)
(***************************************************************************)
\* ExchangePublicToken with tokensDoc(uid).set(data): the document is replaced
ExchangePublicTokenReplace(p, u) ==
  /\ Receive(p)
  /\ \E public_token \in {Undefined, "public-1"}, exchanged \in BOOLEAN :
       IF Falsy(public_token)
       THEN /\ Respond(p, [status |-> 400])
            /\ UNCHANGED cred
       ELSE IF ~exchanged
       THEN /\ Respond(p, [status |-> 500, error |-> "provider"])
            /\ UNCHANGED cred
       ELSE /\ cred' = [v \in (DOMAIN cred) \cup {u} |->
                          IF v = u THEN [access_token |-> "access-1",
                                         item_id |-> "item-1"]
                          ELSE cred[v]]
            /\ Respond(p, [status |-> 200])
  /\ UNCHANGED <<provider, cats, budgets, accounts, tx, match>>

\* the token exchange and tokensDoc(uid).set(data, { merge: true })
ExchangePublicToken(p, u) ==
  /\ Receive(p)
  /\ \E public_token \in {Undefined, "public-1"}, exchanged \in BOOLEAN :
       IF Falsy(public_token)
       THEN /\ Respond(p, [status |-> 400])
            /\ UNCHANGED cred
       ELSE IF ~exchanged
       THEN /\ Respond(p, [status |-> 500, error |-> "provider"])
            /\ UNCHANGED cred
       ELSE /\ cred' = SetMerge(cred, u, [access_token |-> "access-1",
                                          item_id |-> "item-1"])
            /\ Respond(p, [status |-> 200])
  /\ UNCHANGED <<provider, cats, budgets, accounts, tx, match>>

(***************************************************************************)
(* POST /sync-transactions                                                 *)
(***************************************************************************)
\* SyncStart that goes on to the provider without a credential
SyncStartUnlinked(p, u) ==
  /\ Receive(p)
  /\ LET doc == IF u \in DOMAIN cred THEN cred[u] ELSE NoFields
     IN /\ pc' = [pc EXCEPT ![p] = "sync_page"]
        /\ rq' = [rq EXCEPT ![p] = [op |-> "sync", uid |-> u]]
        /\ loc' = [loc EXCEPT ![p] =
              [access_token |-> Field(doc, "access_token", Undefined),
               savedCursor |-> Field(doc, "cursor", 0),
               added |-> <<>>, modified |-> <<>>, removed |-> <<>>,
               nextCursor |-> Field(doc, "cursor", 0)]]
        /\ UNCHANGED resp
  /\ UNCHANGED <<provider, stores, match>>

\* tokensDoc(uid).get(); the locals before the paging loop
SyncStart(p, u) ==
  /\ Receive(p)
  /\ IF u \notin DOMAIN cred
     THEN Respond(p, [status |-> 400, error |-> "Bank not linked"])
     ELSE /\ pc' = [pc EXCEPT ![p] = "sync_page"]
          /\ rq' = [rq EXCEPT ![p] = [op |-> "sync", uid |-> u]]
          /\ loc' = [loc EXCEPT ![p] =
                [access_token |-> cred[u].access_token,
                 savedCursor |-> Field(cred[u], "cursor", 0),
                 added |-> <<>>, modified |-> <<>>, removed |-> <<>>,
                 nextCursor |-> Field(cred[u], "cursor", 0)]]
          /\ UNCHANGED resp
  /\ UNCHANGED <<provider, stores, match>>

\* SyncPage that asks every page with the stored cursor
SyncPageUnchained(p) ==
  /\ pc[p] = "sync_page"
  /\ LET response == transactionsSync(provider, loc[p].savedCursor)
         l == [loc[p] EXCEPT !.added = @ \o response.added,
                             !.modified = @ \o response.modified,
                             !.removed = @ \o response.removed,
                             !.nextCursor = response.next_cursor]
     IN Goto(p, IF response.has_more THEN "sync_page" ELSE "sync_cats", l)
  /\ UNCHANGED <<provider, stores, nreq, match>>

\* SyncPage without the break on has_more = false
SyncPageNoBreak(p) ==
  /\ pc[p] = "sync_page"
  /\ LET response == transactionsSync(provider, loc[p].nextCursor)
         l == [loc[p] EXCEPT !.added = @ \o response.added,
                             !.modified = @ \o response.modified,
                             !.removed = @ \o response.removed,
                             !.nextCursor = response.next_cursor]
     IN Goto(p, "sync_page", l)
  /\ UNCHANGED <<provider, stores, nreq, match>>

\* one turn of the paging loop: the provider answers
SyncPage(p) ==
  /\ pc[p] = "sync_page"
  /\ LET response == transactionsSync(provider, loc[p].nextCursor)
         l == [loc[p] EXCEPT !.added = @ \o response.added,
                             !.modified = @ \o response.modified,
                             !.removed = @ \o response.removed,
                             !.nextCursor = response.next_cursor]
     IN Goto(p, IF response.has_more THEN "sync_page" ELSE "sync_cats", l)
  /\ UNCHANGED <<provider, stores, nreq, match>>

\* SyncPageFail that commits the pages read so far before it answers
SyncPageFailPartial(p) ==
  /\ pc[p] = "sync_page"
  /\ LET u == rq[p].uid
         l == Merge(loc[p], [categories |-> categoriesOf(u)])
     IN /\ tx' = [tx EXCEPT ![u] = syncBatchTx(tx[u], l)]
        /\ cred' = SetMerge(cred, u, syncBatchCred(cred[u], l))
  /\ Respond(p, [status |-> 500, error |-> "provider"])
  /\ UNCHANGED <<provider, cats, budgets, accounts, nreq, match>>

\* one turn of the paging loop: the provider call throws
SyncPageFail(p) ==
  /\ pc[p] = "sync_page"
  /\ Respond(p, [status |-> 500, error |-> "provider"])
  /\ UNCHANGED <<provider, stores, nreq, match>>

\* categoriesCol(uid).get()
SyncLoadCategories(p) ==
  /\ pc[p] = "sync_cats"
  /\ Goto(p, "sync_commit",
          Merge(loc[p], [categories |-> categoriesOf(rq[p].uid)]))
  /\ UNCHANGED <<provider, stores, nreq, match>>

\* SyncInterrupted for writes sent one by one: the upserts may have landed
\* when the cursor write is lost
SyncInterruptedPartial(p) ==
  { <<tx, cred>>,
    <<[tx EXCEPT ![rq[p].uid] = syncBatchTx(tx[rq[p].uid], loc[p])], cred>> }

\* what an interrupted batch.commit() leaves of <<transactions, credentials>>:
\* a batch is atomic, nothing of it lands
SyncInterrupted(p) == { <<tx, cred>> }

\* SyncCommit that answers right after the commit, without reconciliation
SyncCommitRespond(p) ==
  /\ pc[p] = "sync_commit"
  /\ LET u == rq[p].uid
     IN /\ tx' = [tx EXCEPT ![u] = syncBatchTx(tx[u], loc[p])]
        /\ cred' = SetMerge(cred, u, syncBatchCred(
                     IF u \in DOMAIN cred THEN cred[u] ELSE NoFields, loc[p]))
  /\ Respond(p, [status |-> 200, added |-> Len(loc[p].added),
                 modified |-> Len(loc[p].modified),
                 removed |-> Len(loc[p].removed), recategorized |-> 0])
  /\ UNCHANGED <<provider, cats, budgets, accounts, nreq, match>>

\* batch.commit() succeeds: upserts, removal markers and cursor land together
SyncCommit(p) ==
  /\ pc[p] = "sync_commit"
  /\ LET u == rq[p].uid
     IN /\ tx' = [tx EXCEPT ![u] = syncBatchTx(tx[u], loc[p])]
        /\ cred' = SetMerge(cred, u, syncBatchCred(
                     IF u \in DOMAIN cred THEN cred[u] ELSE NoFields, loc[p]))
  /\ Goto(p, "rec_cats", loc[p])
  /\ UNCHANGED <<provider, cats, budgets, accounts, nreq, match>>

\* batch.commit() throws
SyncCommitFail(p) ==
  /\ pc[p] = "sync_commit"
  /\ \E left \in SyncInterrupted(p) : tx' = left[1] /\ cred' = left[2]
  /\ Respond(p, [status |-> 500, error |-> "commit"])
  /\ UNCHANGED <<provider, cats, budgets, accounts, nreq, match>>

(***************************************************************************)
(* recategorizeAllTransactions, as the tail of a handler.                  *)
(***************************************************************************)
\* AfterRec that reports no recategorized transaction
AfterRecZero(p, updated, total) ==
  IF rq[p].op = "sync"
  THEN [status |-> 200, added |-> Len(loc[p].added),
        modified |-> Len(loc[p].modified), removed |-> Len(loc[p].removed),
        recategorized |-> 0]
  ELSE IF rq[p].op = "recategorize"
  THEN [status |-> 200, updated |-> 0, total |-> total]
  ELSE [status |-> 200, recategorized |-> 0]

\* the response a handler sends after recategorizeAllTransactions returned
AfterRec(p, updated, total) ==
  IF rq[p].op = "sync"
  THEN [status |-> 200, added |-> Len(loc[p].added),
        modified |-> Len(loc[p].modified), removed |-> Len(loc[p].removed),
        recategorized |-> updated]
  ELSE IF rq[p].op = "recategorize"
  THEN [status |-> 200, updated |-> updated, total |-> total]
  ELSE [status |-> 200, recategorized |-> updated]

\* categoriesCol(uid).get()
RecLoadCategories(p) ==
  /\ pc[p] = "rec_cats"
  /\ Goto(p, "rec_txs", Merge(loc[p], [categories |-> categoriesOf(rq[p].uid)]))
  /\ UNCHANGED <<provider, stores, nreq, match>>

\* txCol(uid).get(), the loop over the transactions, and the return when
\* nothing changed
RecLoadTransactions(p) ==
  /\ pc[p] = "rec_txs"
  /\ LET transactions == tx[rq[p].uid]
     IN IF recBatch(loc[p].categories, transactions) = {}
        THEN Respond(p, AfterRec(p, 0, Cardinality(DOMAIN transactions)))
        ELSE Goto(p, "rec_commit", Merge(loc[p], [transactions |-> transactions]))
  /\ UNCHANGED <<provider, stores, nreq, match>>

\* RecCommit that counts every transaction it looked at as updated
RecCommitCountAll(p) ==
  /\ pc[p] = "rec_commit"
  /\ LET u == rq[p].uid
         batch == recBatch(loc[p].categories, loc[p].transactions)
     IN IF batch \subseteq DOMAIN tx[u]
        THEN /\ tx' = [tx EXCEPT ![u] =
                    recCommitTx(tx[u], loc[p].categories, loc[p].transactions)]
             /\ Respond(p, AfterRec(p, Cardinality(DOMAIN loc[p].transactions),
                                    Cardinality(DOMAIN loc[p].transactions)))
        ELSE /\ UNCHANGED tx
             /\ Respond(p, [status |-> 500, error |-> "commit"])
  /\ UNCHANGED <<provider, cred, cats, budgets, accounts, nreq, match>>

\* RecCommit whose failing commit has applied the updates of the documents
\* that are still stored
RecCommitPartial(p) ==
  /\ pc[p] = "rec_commit"
  /\ LET u == rq[p].uid
         batch == recBatch(loc[p].categories, loc[p].transactions)
     IN /\ tx' = [tx EXCEPT ![u] =
                    recCommitTx(tx[u], loc[p].categories, loc[p].transactions)]
        /\ IF batch \subseteq DOMAIN tx[u]
           THEN Respond(p, AfterRec(p, Cardinality(batch),
                                    Cardinality(DOMAIN loc[p].transactions)))
           ELSE Respond(p, [status |-> 500, error |-> "commit"])
  /\ UNCHANGED <<provider, cred, cats, budgets, accounts, nreq, match>>

\* batch.commit() of the updates: it throws, writing nothing, when a
\* document it updates is gone
RecCommit(p) ==
  /\ pc[p] = "rec_commit"
  /\ LET u == rq[p].uid
         batch == recBatch(loc[p].categories, loc[p].transactions)
     IN IF batch \subseteq DOMAIN tx[u]
        THEN /\ tx' = [tx EXCEPT ![u] =
                    recCommitTx(tx[u], loc[p].categories, loc[p].transactions)]
             /\ Respond(p, AfterRec(p, Cardinality(batch),
                                    Cardinality(DOMAIN loc[p].transactions)))
        ELSE /\ UNCHANGED tx
             /\ Respond(p, [status |-> 500, error |-> "commit"])
  /\ UNCHANGED <<provider, cred, cats, budgets, accounts, nreq, match>>

\* RecFail that puts the cursor back to the one the sync call started from
RecFailRewind(p) ==
  /\ pc[p] \in {"rec_cats", "rec_txs", "rec_commit"}
  /\ cred' = IF rq[p].op = "sync"
             THEN SetMerge(cred, rq[p].uid, [cursor |-> loc[p].savedCursor])
             ELSE cred
  /\ Respond(p, [status |-> 500, error |-> "reconcile"])
  /\ UNCHANGED <<provider, cats, budgets, accounts, tx, nreq, match>>

\* recategorizeAllTransactions throws (a store read or its commit rejects):
\* the catch of the handler answers
RecFail(p) ==
  /\ pc[p] \in {"rec_cats", "rec_txs", "rec_commit"}
  /\ Respond(p, [status |-> 500, error |-> "reconcile"])
  /\ UNCHANGED <<provider, stores, nreq, match>>

(***************************************************************************)
(* POST /recategorize                                                      *)
(***************************************************************************)
Recategorize(p, u) ==
  /\ Receive(p)
  /\ pc' = [pc EXCEPT ![p] = "rec_cats"]
  /\ rq' = [rq EXCEPT ![p] = [op |-> "recategorize", uid |-> u]]
  /\ UNCHANGED <<loc, resp>>
  /\ UNCHANGED <<provider, stores, match>>

(***************************************************************************)
(* POST /categories                                                        *)
(***************************************************************************)
CreateCategory(p, u) ==
  /\ Receive(p)
  /\ \E id \in CatIds \ DOMAIN cats[u], body \in CategoryInputs :
       /\ cats' = [cats EXCEPT ![u] =
                     SetMerge(cats[u], id, [name |-> body.name,
                                            keywords |-> body.keywords])]
       /\ rq' = [rq EXCEPT ![p] =
                     [op |-> "createCategory", uid |-> u, categoryId |-> id]]
  /\ pc' = [pc EXCEPT ![p] = "rec_cats"]
  /\ UNCHANGED <<loc, resp>>
  /\ UNCHANGED <<provider, cred, budgets, accounts, tx, match>>

(***************************************************************************)
(* PUT /categories/:categoryId                                             *)
(***************************************************************************)
\* the bodies a client puts: a rename, a new keyword list
CategoryUpdates ==
  { [name |-> "Eating out"], [keywords |-> <<"diner">>] }

\* { ...(name && { name }), ...(keywords && { keywords }) }
categoryUpdateData(body) ==
  [f \in {g \in DOMAIN body : g = "keywords" \/ ~Falsy(body[g])} |-> body[f]]

\* update() rejects when the document does not exist
UpdateCategory(p, u) ==
  /\ Receive(p)
  /\ \E categoryId \in CatIds, body \in CategoryUpdates :
       IF categoryId \in DOMAIN cats[u]
       THEN /\ cats' = [cats EXCEPT ![u] =
                          SetMerge(cats[u], categoryId, categoryUpdateData(body))]
            /\ pc' = [pc EXCEPT ![p] = "rec_cats"]
            /\ rq' = [rq EXCEPT ![p] = [op |-> "updateCategory", uid |-> u,
                                        categoryId |-> categoryId, body |-> body]]
            /\ UNCHANGED <<loc, resp>>
       ELSE /\ Respond(p, [status |-> 500, error |-> "not-found"])
            /\ UNCHANGED cats
  /\ UNCHANGED <<provider, cred, budgets, accounts, tx, match>>

(***************************************************************************)
(* DELETE /categories/:categoryId                                          *)
(***************************************************************************)
DeleteCategory(p, u) ==
  /\ Receive(p)
  /\ \E categoryId \in CatIds :
       /\ cats' = [cats EXCEPT ![u] = Delete(cats[u], categoryId)]
       /\ rq' = [rq EXCEPT ![p] = [op |-> "deleteCategory", uid |-> u,
                                   categoryId |-> categoryId]]
  /\ pc' = [pc EXCEPT ![p] = "rec_cats"]
  /\ UNCHANGED <<loc, resp>>
  /\ UNCHANGED <<provider, cred, budgets, accounts, tx, match>>

(***************************************************************************)
(* POST /transactions/:transactionId/categorize                            *)
(***************************************************************************)
TxIds == {"t1", "t2"}

\* uniqueKeywords that keeps every occurrence
uniqueKeywordsAll(ks) == ks

\* [...new Set(newKeywords)]: the first occurrence of each keyword, in order
RECURSIVE uniqueKeywords(_)
uniqueKeywords(ks) ==
  IF ks = <<>> THEN <<>>
  ELSE LET front == uniqueKeywords(SubSeq(ks, 1, Len(ks) - 1))
       IN IF ks[Len(ks)] \in Range(front) THEN front
          ELSE Append(front, ks[Len(ks)])

\* CategorizeStart without the check of the category document
CategorizeStartUnchecked(p, u) ==
  /\ Receive(p)
  /\ \E transactionId \in TxIds, categoryId \in CatIds,
        applyToSimilar \in BOOLEAN :
       IF transactionId \notin DOMAIN tx[u]
       THEN Respond(p, [status |-> 404, error |-> "Transaction not found"])
       ELSE /\ pc' = [pc EXCEPT ![p] = "assign_tx"]
            /\ rq' = [rq EXCEPT ![p] =
                        [op |-> "categorize", uid |-> u,
                         transactionId |-> transactionId,
                         categoryId |-> categoryId,
                         applyToSimilar |-> applyToSimilar]]
            /\ loc' = [loc EXCEPT ![p] =
                        [transaction |-> tx[u][transactionId],
                         category |-> IF categoryId \in DOMAIN cats[u]
                                      THEN cats[u][categoryId] ELSE NoFields]]
            /\ UNCHANGED resp
  /\ UNCHANGED <<provider, stores, match>>

\* the transaction and the category are read
CategorizeStart(p, u) ==
  /\ Receive(p)
  /\ \E transactionId \in TxIds, categoryId \in CatIds,
        applyToSimilar \in BOOLEAN :
       IF transactionId \notin DOMAIN tx[u]
       THEN Respond(p, [status |-> 404, error |-> "Transaction not found"])
       ELSE IF categoryId \notin DOMAIN cats[u]
       THEN Respond(p, [status |-> 404, error |-> "Category not found"])
       ELSE /\ pc' = [pc EXCEPT ![p] = "assign_tx"]
            /\ rq' = [rq EXCEPT ![p] =
                        [op |-> "categorize", uid |-> u,
                         transactionId |-> transactionId,
                         categoryId |-> categoryId,
                         applyToSimilar |-> applyToSimilar]]
            /\ loc' = [loc EXCEPT ![p] =
                        [transaction |-> tx[u][transactionId],
                         category |-> cats[u][categoryId]]]
            /\ UNCHANGED resp
  /\ UNCHANGED <<provider, stores, match>>

\* txDoc.ref.update({ category, categoryName })
CategorizeUpdateTx(p) ==
  /\ pc[p] = "assign_tx"
  /\ LET u == rq[p].uid
         id == rq[p].transactionId
     IN IF id \notin DOMAIN tx[u]
        THEN /\ Respond(p, [status |-> 500, error |-> "not-found"])
             /\ UNCHANGED tx
        ELSE /\ tx' = [tx EXCEPT ![u] = SetMerge(tx[u], id,
                         [category |-> rq[p].categoryId,
                          categoryName |-> Field(loc[p].category, "name", Undefined)])]
             /\ IF rq[p].applyToSimilar
                THEN Goto(p, "assign_keywords", loc[p])
                ELSE Respond(p, [status |-> 200])
  /\ UNCHANGED <<provider, cred, cats, budgets, accounts, nreq, match>>

\* categoryDoc.ref.update({ keywords: uniqueKeywords })
CategorizeUpdateKeywords(p) ==
  /\ pc[p] = "assign_keywords"
  /\ LET u == rq[p].uid
         transaction == loc[p].transaction
         name == Field(transaction, "name", Undefined)
         merchant == Field(transaction, "merchant_name", Undefined)
         newKeywords ==
           Field(loc[p].category, "keywords", <<>>)
             \o <<ToLowerCase(name)>>
             \o (IF Falsy(merchant) THEN <<>> ELSE <<ToLowerCase(merchant)>>)
     IN IF name = Undefined
        THEN \* transaction.name.toLowerCase() throws
             /\ Respond(p, [status |-> 500, error |-> "type-error"])
             /\ UNCHANGED cats
        ELSE IF rq[p].categoryId \notin DOMAIN cats[u]
        THEN /\ Respond(p, [status |-> 500, error |-> "not-found"])
             /\ UNCHANGED cats
        ELSE /\ cats' = [cats EXCEPT ![u] = SetMerge(cats[u], rq[p].categoryId,
                            [keywords |-> uniqueKeywords(newKeywords)])]
             /\ Respond(p, [status |-> 200])
  /\ UNCHANGED <<provider, cred, budgets, accounts, tx, nreq, match>>

(***************************************************************************)
(* PUT /transactions/:transactionId                                        *)
(***************************************************************************)
\* the bodies a client puts: a category id (0 for null or ''), a new name
TransactionEdits ==
  {[category |-> c] : c \in {NoCat} \cup CatIds} \cup {[name |-> "Pizza Hut"]}

\* the transaction is read, then the category the body names
EditStart(p, u) ==
  /\ Receive(p)
  /\ \E transactionId \in TxIds, body \in TransactionEdits :
       IF transactionId \notin DOMAIN tx[u]
       THEN Respond(p, [status |-> 404, error |-> "Transaction not found"])
       ELSE LET named ==
                  IF "category" \notin DOMAIN body THEN NoFields
                  ELSE IF body.category = NoCat THEN [categoryName |-> Null]
                  ELSE IF body.category \in DOMAIN cats[u]
                  THEN [categoryName |->
                          Field(cats[u][body.category], "name", Undefined)]
                  ELSE NoFields
            IN /\ pc' = [pc EXCEPT ![p] = "edit_update"]
               /\ rq' = [rq EXCEPT ![p] = [op |-> "editTransaction", uid |-> u,
                                           transactionId |-> transactionId,
                                           body |-> body]]
               /\ loc' = [loc EXCEPT ![p] = [updateData |-> Merge(body, named)]]
               /\ UNCHANGED resp
  /\ UNCHANGED <<provider, stores, match>>

\* txDoc.ref.update(updateData) and the response with the updated document
EditUpdate(p) ==
  /\ pc[p] = "edit_update"
  /\ LET u == rq[p].uid
         id == rq[p].transactionId
     IN IF id \notin DOMAIN tx[u]
        THEN /\ Respond(p, [status |-> 500, error |-> "not-found"])
             /\ UNCHANGED tx
        ELSE /\ tx' = [tx EXCEPT ![u] = SetMerge(tx[u], id, loc[p].updateData)]
             /\ Respond(p, [status |-> 200])
  /\ UNCHANGED <<provider, cred, cats, budgets, accounts, nreq, match>>

(***************************************************************************)
(* POST /get-accounts                                                      *)
(***************************************************************************)
\* response.data.accounts of plaidClient.accountsGet for the linked item
ProviderAccounts ==
  << [account_id |-> "a1", name |-> "Checking", official_name |-> Undefined,
      mask |-> "0000"],
     [account_id |-> "a2", name |-> Undefined, official_name |-> "Gold Savings",
      mask |-> Undefined] >>

\* response.data.item: the institution of the item
ProviderInstitution == [institution_id |-> "ins_1", name |-> "First Bank"]

\* institutionResponse.data.logo: a logo or none
ProviderLogos == {"logo-1", Null}

\* the document written for one account of the item
accountData(account, institution) ==
  [account_id |-> account.account_id,
   name |-> IF ~Falsy(account.name) THEN account.name
            ELSE IF ~Falsy(account.official_name) THEN account.official_name
            ELSE "Account",
   official_name |-> OrNull(account.official_name),
   mask |-> OrNull(account.mask),
   institution_id |-> institution.institution_id,
   institution_name |-> institution.name,
   institution_logo |-> OrEmpty(institution.institution_logo)]

\* the batch of account writes: set-merge on an account that was listed,
\* set on a new one
RECURSIVE accountsBatch(_, _, _, _)
accountsBatch(col, existingAccountIds, accs, institution) ==
  IF accs = <<>> THEN col
  ELSE LET account == accs[1]
           ref == account.account_id
           data == accountData(account, institution)
           rest == SubSeq(accs, 2, Len(accs))
       IN accountsBatch(
            IF ref \in existingAccountIds
            THEN SetMerge(col, ref, data)
            ELSE [i \in (DOMAIN col) \cup {ref} |->
                    IF i = ref THEN data ELSE col[i]],
            existingAccountIds, rest, institution)

\* tokensDoc(uid).get()
GetAccountsStart(p, u) ==
  /\ Receive(p)
  /\ IF u \notin DOMAIN cred
     THEN Respond(p, [status |-> 400, error |-> "Bank not linked"])
     ELSE /\ pc' = [pc EXCEPT ![p] = "acc_get"]
          /\ rq' = [rq EXCEPT ![p] = [op |-> "getAccounts", uid |-> u]]
          /\ loc' = [loc EXCEPT ![p] = [access_token |-> cred[u].access_token]]
          /\ UNCHANGED resp
  /\ UNCHANGED <<provider, stores, match>>

\* plaidClient.accountsGet answers
AccountsGet(p) ==
  /\ pc[p] = "acc_get"
  /\ Goto(p, "acc_inst", Merge(loc[p], [accounts |-> ProviderAccounts,
                                        institution |-> ProviderInstitution]))
  /\ UNCHANGED <<provider, stores, nreq, match>>

\* plaidClient.institutionsGetById answers
InstitutionGet(p) ==
  /\ pc[p] = "acc_inst"
  /\ \E logo \in ProviderLogos :
       Goto(p, "acc_read",
            [loc[p] EXCEPT !.institution =
               Merge(@, [institution_logo |-> logo])])
  /\ UNCHANGED <<provider, stores, nreq, match>>

\* accountsCol(uid).get(): the account ids already stored
AccountsRead(p) ==
  /\ pc[p] = "acc_read"
  /\ Goto(p, "acc_commit",
          Merge(loc[p], [existingAccountIds |->
             {Field(accounts[rq[p].uid][i], "account_id", Undefined) :
                i \in DOMAIN accounts[rq[p].uid]}]))
  /\ UNCHANGED <<provider, stores, nreq, match>>

\* batch.commit() of the account writes and the response
AccountsCommit(p) ==
  /\ pc[p] = "acc_commit"
  /\ LET u == rq[p].uid
         updated == Cardinality({k \in 1..Len(loc[p].accounts) :
                       loc[p].accounts[k].account_id \in loc[p].existingAccountIds})
     IN /\ accounts' = [accounts EXCEPT ![u] =
               accountsBatch(accounts[u], loc[p].existingAccountIds,
                             loc[p].accounts, loc[p].institution)]
        /\ Respond(p, [status |-> 200, count |-> Len(loc[p].accounts),
                       added |-> Len(loc[p].accounts) - updated,
                       updated |-> updated])
  /\ UNCHANGED <<provider, cred, cats, budgets, tx, nreq, match>>

\* a provider call or a store call of the handler throws: the catch answers
GetAccountsFail(p) ==
  /\ pc[p] \in {"acc_get", "acc_inst", "acc_read", "acc_commit"}
  /\ Respond(p, [status |-> 500, error |-> pc[p]])
  /\ UNCHANGED <<provider, stores, nreq, match>>

(***************************************************************************)
(* DELETE /accounts/:accountId                                             *)
(***************************************************************************)
AccountIds == {"a1", "a2"}

\* every transaction, whatever its account
transactionsOfAccountAll(col, accountId) == DOMAIN col

\* txCol(uid).where('account_id', '==', accountId).get()
transactionsOfAccount(col, accountId) ==
  {id \in DOMAIN col : Field(col[id], "account_id", Undefined) = accountId}

\* accountsCol(uid).doc(accountId).get()
DeleteAccountStart(p, u) ==
  /\ Receive(p)
  /\ \E accountId \in AccountIds, deleteTransactions \in BOOLEAN :
       IF accountId \notin DOMAIN accounts[u]
       THEN Respond(p, [status |-> 404, error |-> "Account not found"])
       ELSE /\ pc' = [pc EXCEPT ![p] =
                        IF deleteTransactions THEN "acct_query" ELSE "acct_delete"]
            /\ rq' = [rq EXCEPT ![p] =
                        [op |-> "deleteAccount", uid |-> u,
                         accountId |-> accountId,
                         deleteTransactions |-> deleteTransactions]]
            /\ UNCHANGED <<loc, resp>>
  /\ UNCHANGED <<provider, stores, match>>

\* the transactions of the account are listed
DeleteAccountQuery(p) ==
  /\ pc[p] = "acct_query"
  /\ Goto(p, "acct_batch",
          [transactionIds |->
             transactionsOfAccount(tx[rq[p].uid], rq[p].accountId)])
  /\ UNCHANGED <<provider, stores, nreq, match>>

\* batch.commit() of the deletes
DeleteAccountBatch(p) ==
  /\ pc[p] = "acct_batch"
  /\ tx' = [tx EXCEPT ![rq[p].uid] =
              [id \in (DOMAIN @) \ loc[p].transactionIds |-> @[id]]]
  /\ Goto(p, "acct_delete", loc[p])
  /\ UNCHANGED <<provider, cred, cats, budgets, accounts, nreq, match>>

\* accountDoc.ref.delete() and the response
DeleteAccountDoc(p) ==
  /\ pc[p] = "acct_delete"
  /\ accounts' = [accounts EXCEPT ![rq[p].uid] = Delete(@, rq[p].accountId)]
  /\ Respond(p, [status |-> 200,
                 transactionsDeleted |-> rq[p].deleteTransactions])
  /\ UNCHANGED <<provider, cred, cats, budgets, tx, nreq, match>>

\* a store call of the handler throws: the catch answers
DeleteAccountFail(p) ==
  /\ pc[p] \in {"acct_query", "acct_batch", "acct_delete"}
  /\ Respond(p, [status |-> 500, error |-> pc[p]])
  /\ UNCHANGED <<provider, stores, nreq, match>>

(***************************************************************************)
(* DELETE /transactions/:transactionId                                     *)
(***************************************************************************)
\* txCol(uid).doc(transactionId).get()
DeleteTransactionStart(p, u) ==
  /\ Receive(p)
  /\ \E transactionId \in TxIds :
       IF transactionId \notin DOMAIN tx[u]
       THEN Respond(p, [status |-> 404, error |-> "Transaction not found"])
       ELSE /\ pc' = [pc EXCEPT ![p] = "tx_delete"]
            /\ rq' = [rq EXCEPT ![p] = [op |-> "deleteTransaction", uid |-> u,
                                        transactionId |-> transactionId]]
            /\ UNCHANGED <<loc, resp>>
  /\ UNCHANGED <<provider, stores, match>>

\* DeleteTransactionDoc that deletes every transaction of the user
DeleteTransactionDocAll(p) ==
  /\ pc[p] = "tx_delete"
  /\ tx' = [tx EXCEPT ![rq[p].uid] = NoDocs]
  /\ Respond(p, [status |-> 200,
                 message |-> "Transaction deleted successfully"])
  /\ UNCHANGED <<provider, cred, cats, budgets, accounts, nreq, match>>

\* DeleteTransactionDoc that deletes the document of that id under every user
DeleteTransactionDocEveryUser(p) ==
  /\ pc[p] = "tx_delete"
  /\ tx' = [v \in DOMAIN tx |-> Delete(tx[v], rq[p].transactionId)]
  /\ Respond(p, [status |-> 200,
                 message |-> "Transaction deleted successfully"])
  /\ UNCHANGED <<provider, cred, cats, budgets, accounts, nreq, match>>

\* txDoc.ref.delete() and the response
DeleteTransactionDoc(p) ==
  /\ pc[p] = "tx_delete"
  /\ tx' = [tx EXCEPT ![rq[p].uid] = Delete(@, rq[p].transactionId)]
  /\ Respond(p, [status |-> 200,
                 message |-> "Transaction deleted successfully"])
  /\ UNCHANGED <<provider, cred, cats, budgets, accounts, nreq, match>>

(***************************************************************************)
(* POST /budgets and POST /initialize-account                              *)
(***************************************************************************)
\* the bodies a client posts: a name and the categories of the budget
BudgetInputs ==
  { [name |-> "Plan", categories |-> <<>>],
    [name |-> "Home", categories |-> <<[name |-> "Food", keywords |-> <<"foo">>]>>] }

\* the head of the default category list, with the head of its keyword lists
defaultCategories ==
  << [name |-> "Food & Dining", keywords |-> <<"restaurant", "food", "cafe">>],
     [name |-> "Transportation", keywords |-> <<"gas", "oil">>] >>

BudgetIds == 1..MaxReqs

\* budgetsCol(uid).doc(): a new id, here the least id that no stored budget
\* has, no stored category refers to and no running handler holds
newBudgetId(u) ==
  LET used == (DOMAIN budgets[u])
                \cup {Field(cats[u][c], "budgetId", 0) : c \in DOMAIN cats[u]}
                \cup {Field(loc[q], "budgetId", 0) : q \in Procs}
  IN CHOOSE i \in BudgetIds \ used : \A j \in BudgetIds \ used : i <= j

\* the handler after the check: the locals before budgetRef.set
BudgetCreate(p, u, op, body) ==
  /\ pc' = [pc EXCEPT ![p] = "budget_set"]
  /\ rq' = [rq EXCEPT ![p] = [op |-> op, uid |-> u, body |-> body]]
  /\ loc' = [loc EXCEPT ![p] = [budgetId |-> newBudgetId(u),
                                pending |-> body.categories,
                                categoryRefs |-> <<>>]]
  /\ UNCHANGED resp

\* CreateBudgetStart without the check of the existing budgets
CreateBudgetStartUnchecked(p, u) ==
  /\ Receive(p)
  /\ \E body \in BudgetInputs : BudgetCreate(p, u, "createBudget", body)
  /\ UNCHANGED <<provider, stores, match>>

\* POST /budgets: budgetsCol(uid).get() and the check
CreateBudgetStart(p, u) ==
  /\ Receive(p)
  /\ \E body \in BudgetInputs :
       IF DOMAIN budgets[u] # {}
       THEN Respond(p, [status |-> 400,
                        error |-> "User can only have one budget for now"])
       ELSE BudgetCreate(p, u, "createBudget", body)
  /\ UNCHANGED <<provider, stores, match>>

\* POST /initialize-account: budgetsCol(uid).get() and the check
InitializeAccount(p, u) ==
  /\ Receive(p)
  /\ IF DOMAIN budgets[u] # {}
     THEN Respond(p, [status |-> 400, error |-> "Account already initialized"])
     ELSE BudgetCreate(p, u, "initializeAccount",
                       [name |-> "My Budget", categories |-> defaultCategories])
  /\ UNCHANGED <<provider, stores, match>>

\* the response of a budget creation
BudgetCreated(p, categoryRefs) ==
  [status |-> 200, id |-> loc[p].budgetId, categories |-> categoryRefs]

\* budgetRef.set(budget)
CreateBudgetSet(p) ==
  /\ pc[p] = "budget_set"
  /\ budgets' = [budgets EXCEPT ![rq[p].uid] =
                   SetMerge(@, loc[p].budgetId, [name |-> rq[p].body.name])]
  /\ IF loc[p].pending = <<>>
     THEN Respond(p, BudgetCreated(p, <<>>))
     ELSE Goto(p, "budget_cats", loc[p])
  /\ UNCHANGED <<provider, cred, cats, accounts, tx, nreq, match>>

\* one turn of the loop over the categories: catRef.set under a new id
CreateBudgetCategory(p) ==
  /\ pc[p] = "budget_cats"
  /\ LET u == rq[p].uid
         category == loc[p].pending[1]
         rest == SubSeq(loc[p].pending, 2, Len(loc[p].pending))
     IN \E id \in CatIds \ DOMAIN cats[u] :
          LET refs == Append(loc[p].categoryRefs, id)
          IN /\ cats' = [cats EXCEPT ![u] =
                   SetMerge(@, id, Merge(category, [budgetId |-> loc[p].budgetId]))]
             /\ IF rest = <<>>
                THEN Respond(p, BudgetCreated(p, refs))
                ELSE Goto(p, "budget_cats",
                          [loc[p] EXCEPT !.pending = rest, !.categoryRefs = refs])
  /\ UNCHANGED <<provider, cred, budgets, accounts, tx, nreq, match>>

\* a set of the handler throws: the catch answers
CreateBudgetFail(p) ==
  /\ pc[p] \in {"budget_set", "budget_cats"}
  /\ Respond(p, [status |-> 500, error |-> pc[p]])
  /\ UNCHANGED <<provider, stores, nreq, match>>

(***************************************************************************)
(* PUT /budgets/:budgetId                                                  *)
(***************************************************************************)
\* update() rejects when the document does not exist
UpdateBudget(p, u) ==
  /\ Receive(p)
  /\ \E budgetId \in BudgetIds :
       IF budgetId \in DOMAIN budgets[u]
       THEN /\ budgets' = [budgets EXCEPT ![u] =
                             SetMerge(@, budgetId, [name |-> "Renamed"])]
            /\ Respond(p, [status |-> 200])
       ELSE /\ Respond(p, [status |-> 500, error |-> "not-found"])
            /\ UNCHANGED budgets
  /\ UNCHANGED <<provider, cred, cats, accounts, tx, match>>

(***************************************************************************)
(* DELETE /budgets/:budgetId                                               *)
(***************************************************************************)
\* categoriesOfBudget that lists the categories of every budget
categoriesOfAnyBudget(col, budgetId) ==
  {id \in DOMAIN col : "budgetId" \in DOMAIN col[id]}

\* categoriesCol(uid).where('budgetId', '==', budgetId).get()
categoriesOfBudget(col, budgetId) ==
  {id \in DOMAIN col : Field(col[id], "budgetId", 0) = budgetId}

\* budgetsCol(uid).doc(budgetId).delete()
DeleteBudgetStart(p, u) ==
  /\ Receive(p)
  /\ \E budgetId \in BudgetIds :
       /\ budgets' = [budgets EXCEPT ![u] = Delete(@, budgetId)]
       /\ rq' = [rq EXCEPT ![p] = [op |-> "deleteBudget", uid |-> u,
                                   budgetId |-> budgetId]]
  /\ pc' = [pc EXCEPT ![p] = "budget_del"]
  /\ UNCHANGED <<loc, resp>>
  /\ UNCHANGED <<provider, cred, cats, accounts, tx, match>>

\* the categories of the budget are listed and deleted in one batch
DeleteBudgetCategories(p) ==
  /\ pc[p] = "budget_del"
  /\ cats' = [cats EXCEPT ![rq[p].uid] =
                [id \in (DOMAIN @) \ categoriesOfBudget(@, rq[p].budgetId) |->
                   @[id]]]
  /\ Respond(p, [status |-> 200])
  /\ UNCHANGED <<provider, cred, budgets, accounts, tx, nreq, match>>

\* the query or the batch.commit() throws: the catch answers
DeleteBudgetFail(p) ==
  /\ pc[p] = "budget_del"
  /\ Respond(p, [status |-> 500, error |-> pc[p]])
  /\ UNCHANGED <<provider, stores, nreq, match>>

(***************************************************************************)
(* Initial state and specifications.                                       *)
(***************************************************************************)
Init ==
  /\ provider = <<>>
  /\ cred = NoDocs
  /\ cats = [u \in Users |-> NoDocs]
  /\ budgets = [u \in Users |-> NoDocs]
  /\ accounts = [u \in Users |-> NoDocs]
  /\ tx = [u \in Users |-> NoDocs]
  /\ pc = [p \in Procs |-> "idle"]
  /\ rq = [p \in Procs |-> NoReq]
  /\ loc = [p \in Procs |-> NoFields]
  /\ resp = [p \in Procs |-> NoResp]
  /\ nreq = 0
  /\ m_in = NoFields
  /\ m_out = NoFields

\* a user who has linked the bank and synced nothing yet
InitLinked ==
  /\ provider = <<>>
  /\ cred = [u \in Users |-> [access_token |-> "access-1", item_id |-> "item-1"]]
  /\ cats = [u \in Users |-> NoDocs]
  /\ budgets = [u \in Users |-> NoDocs]
  /\ accounts = [u \in Users |-> NoDocs]
  /\ tx = [u \in Users |-> NoDocs]
  /\ pc = [p \in Procs |-> "idle"]
  /\ rq = [p \in Procs |-> NoReq]
  /\ loc = [p \in Procs |-> NoFields]
  /\ resp = [p \in Procs |-> NoResp]
  /\ nreq = 0
  /\ m_in = NoFields
  /\ m_out = NoFields

\* the categorisation engine: a slot serves sync, reconciliation, category
\* create, update and delete, manual assignment and transaction edit
CatStep(p) ==
  \/ \E u \in Users : SyncStart(p, u)
  \/ SyncPage(p)
  \/ SyncPageFail(p)
  \/ SyncLoadCategories(p)
  \/ SyncCommit(p)
  \/ SyncCommitFail(p)
  \/ RecLoadCategories(p)
  \/ RecLoadTransactions(p)
  \/ RecCommit(p)
  \/ \E u \in Users : Recategorize(p, u)
  \/ \E u \in Users : CreateCategory(p, u)
  \/ \E u \in Users : UpdateCategory(p, u)
  \/ \E u \in Users : DeleteCategory(p, u)
  \/ \E u \in Users : CategorizeStart(p, u)
  \/ CategorizeUpdateTx(p)
  \/ CategorizeUpdateKeywords(p)
  \/ \E u \in Users : EditStart(p, u)
  \/ EditUpdate(p)

\* requests of a linked user, served one after another
NextCat == ProviderPublish \/ CatStep(1)
SpecCat == InitLinked /\ [][NextCat]_vars

\* a user before or after the bank is linked
InitAny == Init \/ InitLinked

\* the accounts of a user: a slot serves token exchange, account refresh,
\* sync, account delete and transaction delete
AcctStep(p) ==
  \/ \E u \in Users : ExchangePublicToken(p, u)
  \/ \E u \in Users : GetAccountsStart(p, u)
  \/ AccountsGet(p)
  \/ InstitutionGet(p)
  \/ AccountsRead(p)
  \/ AccountsCommit(p)
  \/ GetAccountsFail(p)
  \/ \E u \in Users : SyncStart(p, u)
  \/ SyncPage(p)
  \/ SyncPageFail(p)
  \/ SyncLoadCategories(p)
  \/ SyncCommit(p)
  \/ SyncCommitFail(p)
  \/ RecLoadCategories(p)
  \/ RecLoadTransactions(p)
  \/ \E u \in Users : DeleteAccountStart(p, u)
  \/ DeleteAccountQuery(p)
  \/ DeleteAccountBatch(p)
  \/ DeleteAccountDoc(p)
  \/ DeleteAccountFail(p)
  \/ \E u \in Users : DeleteTransactionStart(p, u)
  \/ DeleteTransactionDoc(p)

\* requests about accounts, served one after another
NextAcct == ProviderPublish \/ AcctStep(1)
SpecAcct == InitAny /\ [][NextAcct]_vars

\* the budget handlers
BudgetStep(p) ==
  \/ \E u \in Users : CreateBudgetStart(p, u)
  \/ \E u \in Users : InitializeAccount(p, u)
  \/ CreateBudgetSet(p)
  \/ CreateBudgetCategory(p)
  \/ CreateBudgetFail(p)
  \/ \E u \in Users : UpdateBudget(p, u)
  \/ \E u \in Users : DeleteBudgetStart(p, u)
  \/ DeleteBudgetCategories(p)
  \/ DeleteBudgetFail(p)

\* budget requests of one user served by two slots at once
NextBudget == \E p \in Procs : BudgetStep(p)
SpecBudget == Init /\ [][NextBudget]_vars

\* every request handler of a linked user, each awaited call answered
AllStep(p) ==
  \/ \E u \in Users : SyncStart(p, u)
  \/ SyncPage(p)
  \/ SyncLoadCategories(p)
  \/ SyncCommit(p)
  \/ RecLoadCategories(p)
  \/ RecLoadTransactions(p)
  \/ RecCommit(p)
  \/ \E u \in Users : Recategorize(p, u)
  \/ \E u \in Users : CreateCategory(p, u)
  \/ \E u \in Users : UpdateCategory(p, u)
  \/ \E u \in Users : DeleteCategory(p, u)
  \/ \E u \in Users : CategorizeStart(p, u)
  \/ CategorizeUpdateTx(p)
  \/ CategorizeUpdateKeywords(p)
  \/ \E u \in Users : EditStart(p, u)
  \/ EditUpdate(p)
  \/ \E u \in Users : CreateBudgetStart(p, u)
  \/ \E u \in Users : InitializeAccount(p, u)
  \/ CreateBudgetSet(p)
  \/ CreateBudgetCategory(p)
  \/ \E u \in Users : UpdateBudget(p, u)
  \/ \E u \in Users : DeleteBudgetStart(p, u)
  \/ DeleteBudgetCategories(p)
  \/ \E u \in Users : GetAccountsStart(p, u)
  \/ AccountsGet(p)
  \/ InstitutionGet(p)
  \/ AccountsRead(p)
  \/ AccountsCommit(p)
  \/ \E u \in Users : DeleteAccountStart(p, u)
  \/ DeleteAccountQuery(p)
  \/ DeleteAccountBatch(p)
  \/ DeleteAccountDoc(p)
  \/ \E u \in Users : DeleteTransactionStart(p, u)
  \/ DeleteTransactionDoc(p)

\* all requests of a linked user, served one after another
NextAll == ProviderPublish \/ AllStep(1)
SpecAll == InitLinked /\ [][NextAll]_vars

\* a second user, who sends no request: the store holds the records of an
\* item of their own, synced with a category and a budget of theirs
Others == {"u2"}

otherRecords ==
  [cred |-> [access_token |-> "access-2", item_id |-> "item-2",
             cursor |-> 1, lastSyncAt |-> 1],
   cats |-> SetMerge(NoDocs, 1, [name |-> "Food", keywords |-> <<"foo">>]),
   budgets |-> SetMerge(NoDocs, 1, [name |-> "Plan"]),
   accounts |-> accountsBatch(NoDocs, {}, ProviderAccounts,
                              Merge(ProviderInstitution,
                                    [institution_logo |-> "logo-1"])),
   tx |-> upsertAll(NoDocs, <<[id |-> 1, name |-> "Food",
                               keywords |-> <<"foo">>]>>, <<PT1, PT2>>)]

\* the linked user of InitLinked next to the records of the second user
InitTenants ==
  /\ provider = <<>>
  /\ cred = [u \in Users \cup Others |->
               IF u \in Others THEN otherRecords.cred
               ELSE [access_token |-> "access-1", item_id |-> "item-1"]]
  /\ cats = [u \in Users \cup Others |->
               IF u \in Others THEN otherRecords.cats ELSE NoDocs]
  /\ budgets = [u \in Users \cup Others |->
                  IF u \in Others THEN otherRecords.budgets ELSE NoDocs]
  /\ accounts = [u \in Users \cup Others |->
                   IF u \in Others THEN otherRecords.accounts ELSE NoDocs]
  /\ tx = [u \in Users \cup Others |->
             IF u \in Others THEN otherRecords.tx ELSE NoDocs]
  /\ pc = [p \in Procs |-> "idle"]
  /\ rq = [p \in Procs |-> NoReq]
  /\ loc = [p \in Procs |-> NoFields]
  /\ resp = [p \in Procs |-> NoResp]
  /\ nreq = 0
  /\ m_in = NoFields
  /\ m_out = NoFields

\* every handler, for a user whose store neighbours the second user's
NextTenants == ProviderPublish \/ AllStep(1)
SpecTenants == InitTenants /\ [][NextTenants]_vars

\* the routes behind verifyToken: a handler starts on the request that
\* verifyToken passed on, for the user of the token
AuthStep(p) ==
  \/ RequestArrives(p)
  \/ VerifyHeader(p)
  \/ VerifyIdToken(p)
  \/ pc[p] = "verified" /\ ReadRoute(p, rq[p].uid)
  \/ pc[p] = "verified" /\ ExchangePublicToken(p, rq[p].uid)
  \/ pc[p] = "verified" /\ SyncStart(p, rq[p].uid)
  \/ SyncPage(p)
  \/ SyncLoadCategories(p)
  \/ SyncCommit(p)
  \/ RecLoadCategories(p)
  \/ RecLoadTransactions(p)
  \/ RecCommit(p)
  \/ pc[p] = "verified" /\ Recategorize(p, rq[p].uid)
  \/ pc[p] = "verified" /\ CreateCategory(p, rq[p].uid)
  \/ pc[p] = "verified" /\ UpdateCategory(p, rq[p].uid)
  \/ pc[p] = "verified" /\ DeleteCategory(p, rq[p].uid)
  \/ pc[p] = "verified" /\ CategorizeStart(p, rq[p].uid)
  \/ CategorizeUpdateTx(p)
  \/ CategorizeUpdateKeywords(p)
  \/ pc[p] = "verified" /\ EditStart(p, rq[p].uid)
  \/ EditUpdate(p)
  \/ pc[p] = "verified" /\ CreateBudgetStart(p, rq[p].uid)
  \/ pc[p] = "verified" /\ InitializeAccount(p, rq[p].uid)
  \/ CreateBudgetSet(p)
  \/ CreateBudgetCategory(p)
  \/ pc[p] = "verified" /\ UpdateBudget(p, rq[p].uid)
  \/ pc[p] = "verified" /\ DeleteBudgetStart(p, rq[p].uid)
  \/ DeleteBudgetCategories(p)
  \/ pc[p] = "verified" /\ GetAccountsStart(p, rq[p].uid)
  \/ AccountsGet(p)
  \/ InstitutionGet(p)
  \/ AccountsRead(p)
  \/ AccountsCommit(p)
  \/ pc[p] = "verified" /\ DeleteAccountStart(p, rq[p].uid)
  \/ DeleteAccountQuery(p)
  \/ DeleteAccountBatch(p)
  \/ DeleteAccountDoc(p)
  \/ pc[p] = "verified" /\ DeleteTransactionStart(p, rq[p].uid)
  \/ DeleteTransactionDoc(p)

\* a linked user whose item holds one transaction upstream
InitPublished ==
  /\ provider = <<[added |-> <<PT1>>, modified |-> <<>>, removed |-> <<>>]>>
  /\ cred = [u \in Users |-> [access_token |-> "access-1", item_id |-> "item-1"]]
  /\ cats = [u \in Users |-> NoDocs]
  /\ budgets = [u \in Users |-> NoDocs]
  /\ accounts = [u \in Users |-> NoDocs]
  /\ tx = [u \in Users |-> NoDocs]
  /\ pc = [p \in Procs |-> "idle"]
  /\ rq = [p \in Procs |-> NoReq]
  /\ loc = [p \in Procs |-> NoFields]
  /\ resp = [p \in Procs |-> NoResp]
  /\ nreq = 0
  /\ m_in = NoFields
  /\ m_out = NoFields

\* requests with their Authorization header, served one after another
NextAuth == \E p \in {1} : AuthStep(p)
SpecAuth == InitPublished /\ [][NextAuth]_vars

(***************************************************************************)
(* The categorisation functions on their own: inputs drawn at the start,   *)
(* one action per function.                                                *)
(***************************************************************************)
MatchKeywordLists ==
  { <<>>, <<"foo">>, <<"foo", "bar">>, <<"BAR">>, <<"Restaurant">>,
    <<"gas station", "">>, <<"fine">> }

\* the category lists of up to MaxCats categories, ids in enumeration order
MatchCategoryLists ==
  UNION { { [i \in 1..n |-> [id |-> i, name |-> "cat" \o ToString(i),
                             keywords |-> ks[i]]]
              : ks \in [1..n -> MatchKeywordLists] }
          : n \in 0..MaxCats }

MatchTransactions ==
  { [name |-> "foobar", merchant_name |-> "", pf_category |-> Null],
    [name |-> "FOOBAR Cafe", merchant_name |-> Null,
     pf_category |-> "FOOD_AND_DRINK"],
    [name |-> "Shell", merchant_name |-> "Shell Oil",
     pf_category |-> "TRANSPORTATION"],
    [name |-> "Joe's Diner", merchant_name |-> "",
     pf_category |-> "FOOD_AND_DRINK"],
    [name |-> "ATM Withdrawal", merchant_name |-> "",
     pf_category |-> "TRANSFER_OUT"],
    [name |-> Undefined, merchant_name |-> "Bar None", pf_category |-> Null] }

InitMatch ==
  /\ provider = <<>>
  /\ cred = NoDocs
  /\ cats = [u \in Users |-> NoDocs]
  /\ budgets = [u \in Users |-> NoDocs]
  /\ accounts = [u \in Users |-> NoDocs]
  /\ tx = [u \in Users |-> NoDocs]
  /\ pc = [p \in Procs |-> "idle"]
  /\ rq = [p \in Procs |-> NoReq]
  /\ loc = [p \in Procs |-> NoFields]
  /\ resp = [p \in Procs |-> NoResp]
  /\ nreq = 0
  /\ m_in \in [categories : MatchCategoryLists, transaction : MatchTransactions]
  /\ m_out = NoFields

\* findCategoryByKeywords(transaction.name, transaction.merchant_name)
MatchByKeywords ==
  /\ m_out' = [fn |-> "findCategoryByKeywords",
               result |-> findCategoryByKeywords(m_in.categories,
                             m_in.transaction.name,
                             m_in.transaction.merchant_name)]
  /\ UNCHANGED <<provider, stores, slots, nreq, m_in>>

\* the keyword match, then the provider-category fallback
MatchAssigned ==
  /\ m_out' = [fn |-> "assignedCategory",
               result |-> assignedCategoryOf(m_in.categories, m_in.transaction)]
  /\ UNCHANGED <<provider, stores, slots, nreq, m_in>>

\* the sync handler's upsert data for the transaction as the provider sends
\* it, and recategorizeAllTransactions' matching on the record then stored
MatchSyncUpsert ==
  LET t == [transaction_id |-> "t1", account_id |-> "a1",
            name |-> m_in.transaction.name,
            merchant_name |-> m_in.transaction.merchant_name,
            amount |-> 12, pf |-> m_in.transaction.pf_category]
      data == syncData(m_in.categories, t)
  IN /\ m_out' = [fn |-> "syncUpsert",
                  written |-> data.category,
                  reconciled |-> assignedCategoryOf(m_in.categories,
                                    [name |-> data.name,
                                     merchant_name |-> data.merchant_name,
                                     pf_category |-> data.pf_category]).id]
     /\ UNCHANGED <<provider, stores, slots, nreq, m_in>>

NextMatch == MatchByKeywords \/ MatchAssigned \/ MatchSyncUpsert
SpecMatch == InitMatch /\ [][NextMatch]_vars

\* the sync engine: a slot serves token exchange, sync and category creation
SyncStep(p) ==
  \/ \E u \in Users : ExchangePublicToken(p, u)
  \/ \E u \in Users : SyncStart(p, u)
  \/ SyncPage(p)
  \/ SyncPageFail(p)
  \/ SyncLoadCategories(p)
  \/ SyncCommit(p)
  \/ SyncCommitFail(p)
  \/ RecLoadCategories(p)
  \/ RecLoadTransactions(p)
  \/ RecCommit(p)
  \/ \E u \in Users : CreateCategory(p, u)

\* sync calls that run one after another
NextSyncSeq == ProviderPublish \/ SyncStep(1)
SpecSyncSeq == Init /\ [][NextSyncSeq]_vars

\* the steps a sync call takes when the provider and the store answer
SyncRun(p) ==
  \/ SyncPage(p)
  \/ SyncLoadCategories(p)
  \/ SyncCommit(p)
  \/ RecLoadCategories(p)
  \/ RecLoadTransactions(p)
  \/ RecCommit(p)

\* the sync calls of a linked user who has no category
SyncOnly(p) ==
  \/ \E u \in Users : SyncStart(p, u)
  \/ SyncPage(p)
  \/ SyncPageFail(p)
  \/ SyncLoadCategories(p)
  \/ SyncCommit(p)
  \/ SyncCommitFail(p)
  \/ RecLoadCategories(p)
  \/ RecLoadTransactions(p)

\* sync calls one after another; a call whose awaited request can be
\* answered is answered in the end
NextSyncLive == ProviderPublish \/ SyncOnly(1)
SpecSyncLive == InitLinked /\ [][NextSyncLive]_vars /\ WF_vars(SyncRun(1))

\* sync calls of a second client that run concurrently with the first slot
\* a slot that serves sync calls only
SyncCall(p) ==
  \/ \E u \in Users : SyncStart(p, u)
  \/ SyncPage(p)
  \/ SyncPageFail(p)
  \/ SyncLoadCategories(p)
  \/ SyncCommit(p)
  \/ SyncCommitFail(p)
  \/ RecLoadCategories(p)
  \/ RecLoadTransactions(p)
  \/ RecCommit(p)

NextConc == ProviderPublish \/ SyncStep(1) \/ SyncCall(2)
SpecConc == Init /\ [][NextConc]_vars

\* a slot that serves sync and category creation, each with its
\* reconciliation
RecSide(p) ==
  \/ \E u \in Users : SyncStart(p, u)
  \/ SyncPage(p)
  \/ SyncLoadCategories(p)
  \/ SyncCommit(p)
  \/ RecLoadCategories(p)
  \/ RecLoadTransactions(p)
  \/ RecCommit(p)
  \/ \E u \in Users : CreateCategory(p, u)

\* a slot of a second client that deletes transactions
DeleteSide(p) ==
  \/ \E u \in Users : DeleteTransactionStart(p, u)
  \/ DeleteTransactionDoc(p)

\* sync calls one after another, with reconciliations that fail
NextSyncRetry == ProviderPublish \/ SyncStep(1) \/ RecFail(1)
SpecSyncRetry == Init /\ [][NextSyncRetry]_vars

\* reconciliation with transaction deletes running next to it
NextRecConc == ProviderPublish \/ RecSide(1) \/ DeleteSide(2)
SpecRecConc == InitLinked /\ [][NextRecConc]_vars


(***************************************************************************)
(* Properties of the sync engine.                                          *)
(***************************************************************************)
\* the fields of a transaction document that only sync writes
ProviderFields == {"account_id", "name", "merchant_name", "amount", "outflow",
                   "inflow", "pf_category", "removed"}

\* a transaction collection cut down to what sync merged into it
SyncView(col) ==
  [id \in DOMAIN col |->
     [f \in (DOMAIN col[id]) \cap ProviderFields |-> col[id][f]]]

CredOf(c, u) == IF u \in DOMAIN c THEN c[u] ELSE NoFields
CursorOf(c, u) == Field(CredOf(c, u), "cursor", 0)
LastSyncOf(c, u) == Field(CredOf(c, u), "lastSyncAt", 0)

\* C1: a step that writes sync data of a user to the Transaction Store, or
\* the cursor or lastSyncAt of the credential, is the commit of one sync
\* call and writes the whole batch of that call: all upserts, all removal
\* markers, the new cursor and lastSyncAt.  An interrupted commit writes none.
C1_AtomicCommit ==
  [][\A u \in Users :
       (\/ SyncView(tx'[u]) # SyncView(tx[u])
        \/ CursorOf(cred', u) # CursorOf(cred, u)
        \/ LastSyncOf(cred', u) # LastSyncOf(cred, u))
       => \E p \in Procs :
            /\ pc[p] = "sync_commit"
            /\ rq[p].uid = u
            /\ tx'[u] = syncBatchTx(tx[u], loc[p])
            /\ CredOf(cred', u) = syncBatchCred(CredOf(cred, u), loc[p])]_vars

\* a commit was interrupted while the store holds the batch of another sync
C1_Witness ==
  \E p \in Procs, u \in Users :
    /\ resp[p] = [status |-> 500, error |-> "commit"]
    /\ CursorOf(cred, u) > 0
    /\ DOMAIN tx[u] # {}

\* C2: every turn of the paging loop leaves the Transaction Store and the
\* credential as they are, and the turn in which the provider call fails
\* ends the call with status 500: nothing read before it is committed.
C2_FailureCommitsNothing ==
  [][\A p \in Procs :
       (pc[p] = "sync_page" /\ (pc'[p] # pc[p] \/ loc'[p] # loc[p]))
       => /\ tx' = tx
          /\ cred' = cred
          /\ (pc'[p] = "idle"
                => resp'[p] = [status |-> 500, error |-> "provider"])]_vars

\* the provider call failed with a page unread and nothing was stored
C2_Witness ==
  \E p \in Procs, u \in Users :
    /\ resp[p] = [status |-> 500, error |-> "provider"]
    /\ u \in DOMAIN cred
    /\ CursorOf(cred, u) = 0
    /\ Len(provider) = MaxPages
    /\ tx[u] = NoDocs

\* the pages k+1..n of the log merged one by one into col
RECURSIVE Replay(_, _, _, _)
Replay(col, log, k, n) ==
  IF k >= n THEN col
  ELSE Replay(syncBatchTx(col, [categories |-> <<>>,
                                added |-> log[k + 1].added,
                                modified |-> log[k + 1].modified,
                                removed |-> log[k + 1].removed]),
              log, k + 1, n)

\* C3: with sync calls run one after another, the stored cursor names a page
\* the provider has served, the Transaction Store holds exactly the deltas
\* of the pages up to that cursor, each merged once and in order, and a sync
\* call never reads from a cursor older than the stored one.
C3_CursorReflectsMerged ==
  \A u \in Users :
    /\ CursorOf(cred, u) <= Len(provider)
    /\ SyncView(tx[u]) = SyncView(Replay(NoDocs, provider, 0, CursorOf(cred, u)))
    /\ \A p \in Procs :
         (pc[p] \in {"sync_page", "sync_cats", "sync_commit"} /\ rq[p].uid = u)
         => loc[p].nextCursor >= CursorOf(cred, u)

\* two sync calls have committed, the second one from the cursor of the first
C3_Witness ==
  \E u \in Users :
    /\ LastSyncOf(cred, u) >= 2
    /\ CursorOf(cred, u) = MaxPages
    /\ Cardinality(DOMAIN tx[u]) >= 2

\* C4 (as claimed): no step replaces the stored cursor by an older one.
C4_CursorNeverRewound ==
  [][\A u \in Users : CursorOf(cred', u) >= CursorOf(cred, u)]_vars

\* C5: upserting an added delta into the store a second time, with the same
\* categories, changes nothing: the same document ids and the same fields,
\* for every delta of the provider and every batch a sync call holds.
C5_IdempotentUpsert ==
  \A u \in Users :
    \A ts \in {d.added : d \in Deltas}
              \cup {Field(loc[p], "added", <<>>) \o Field(loc[p], "modified", <<>>)
                      : p \in Procs} :
      LET once == upsertAll(tx[u], categoriesOf(u), ts)
          twice == upsertAll(once, categoriesOf(u), ts)
      IN /\ twice = once
         /\ DOMAIN once = (DOMAIN tx[u]) \cup IdsOf(ts)

\* a sync call is about to commit an added delta that another call has
\* already merged: the delta is applied a second time
C5_Witness ==
  \E p \in Procs :
    /\ pc[p] = "sync_commit"
    /\ loc[p].added # <<>>
    /\ IdsOf(loc[p].added) \subseteq DOMAIN tx[rq[p].uid]
    /\ CursorOf(cred, rq[p].uid) = loc[p].nextCursor
    /\ loc[p].savedCursor < loc[p].nextCursor


(***************************************************************************)
(* Properties of the categorisation functions.                             *)
(***************************************************************************)
\* the categories of cs with a keyword that, lowercased, is a substring of
\* lowercase(name + " " + (merchant_name or ""))
KeywordHits(cs, t) ==
  LET text == ToLowerCase(t.name \o " " \o
                 (IF t.merchant_name \in {Null, Undefined} THEN ""
                  ELSE t.merchant_name))
  IN {i \in 1..Len(cs) :
        \E k \in 1..Len(cs[i].keywords) :
          Includes(text, ToLowerCase(cs[i].keywords[k]))}

\* the categories of cs with a keyword that contains a sub-keyword of bucket b
BucketHits(cs, b) ==
  {i \in 1..Len(cs) :
     \E k \in 1..Len(cs[i].keywords), j \in 1..Len(plaidMappings[b].keywords) :
       Includes(ToLowerCase(cs[i].keywords[k]), plaidMappings[b].keywords[j])}

Least(S) == CHOOSE i \in S : \A j \in S : i <= j

\* C7: for a transaction with a name, findCategoryByKeywords returns the
\* first category in enumeration order that has a matching keyword, and null
\* when no category has one; a later category is never returned.
C7_FirstMatchWins ==
  (m_out # NoFields /\ m_out.fn = "findCategoryByKeywords"
     /\ m_in.transaction.name # Undefined)
  => LET hits == KeywordHits(m_in.categories, m_in.transaction)
     IN IF hits = {} THEN m_out.result = NoMatch
        ELSE m_out.result = m_in.categories[Least(hits)]

\* categories [A:{foo}, B:{foo,bar}] and the transaction "foobar" gave A
C7_Witness ==
  /\ m_out # NoFields
  /\ m_out.fn = "findCategoryByKeywords"
  /\ m_in.transaction.name = "foobar"
  /\ Len(m_in.categories) = 2
  /\ m_in.categories[1].keywords = <<"foo">>
  /\ m_in.categories[2].keywords = <<"foo", "bar">>
  /\ m_out.result.id = 1

\* C8: for a transaction with a name and no keyword match, the assigned
\* category is the first category in enumeration order with a keyword that
\* contains a sub-keyword of the bucket named in the provider label; it is
\* null when the label is absent, names no bucket, or no category has such a
\* keyword.
C8_ProviderFallback ==
  (m_out # NoFields /\ m_out.fn = "assignedCategory"
     /\ m_in.transaction.name # Undefined
     /\ KeywordHits(m_in.categories, m_in.transaction) = {})
  => LET pf == m_in.transaction.pf_category
         named == IF pf = Null THEN {}
                  ELSE {b \in 1..Len(plaidMappings) :
                          Includes(pf, plaidMappings[b].plaidCat)
                          /\ BucketHits(m_in.categories, b) # {}}
     IN IF named = {} THEN m_out.result = NoMatch
        ELSE \E b \in named :
               m_out.result = m_in.categories[Least(BucketHits(m_in.categories, b))]

\* "Joe's Diner" with label FOOD_AND_DRINK matched no keyword and was given
\* the second category, the first one whose keyword contains "restaurant"
C8_Witness ==
  /\ m_out # NoFields
  /\ m_out.fn = "assignedCategory"
  /\ m_in.transaction.name = "Joe's Diner"
  /\ Len(m_in.categories) = 2
  /\ m_in.categories[1].keywords = <<"foo">>
  /\ m_in.categories[2].keywords = <<"Restaurant">>
  /\ m_out.result.id = 2


(***************************************************************************)
(* Properties of reconciliation.                                           *)
(***************************************************************************)
\* the collection after recategorizeAllTransactions ran on it undisturbed
Reconciled(col, categories) == recCommitTx(col, categories, col)

\* C6: a second reconciliation right after a first, with no write between,
\* finds no transaction to update (updated = 0) and changes none.
C6_ReconcileIdempotent ==
  \A u \in Users :
    LET categories == categoriesOf(u)
        once == Reconciled(tx[u], categories)
    IN /\ recBatch(categories, once) = {}
       /\ Reconciled(once, categories) = once

\* POST /recategorize has just answered with updated > 0
C6_Witness ==
  \E p \in Procs :
    /\ pc[p] = "idle"
    /\ "updated" \in DOMAIN resp[p]
    /\ resp[p].updated > 0

\* C9 (as claimed): when PUT /categories/:id with a new name has answered,
\* its reconciliation done, every transaction assigned to that category
\* carries the new name as categoryName.
C9_RenameReachesTransactions ==
  [][\A p \in Procs :
       (/\ pc[p] # "idle"
        /\ pc'[p] = "idle"
        /\ rq[p].op = "updateCategory"
        /\ "name" \in DOMAIN rq[p].body
        /\ resp'[p].status = 200)
       => \A id \in DOMAIN tx'[rq[p].uid] :
            Field(tx'[rq[p].uid][id], "category", NoCat) = rq[p].categoryId
            => Field(tx'[rq[p].uid][id], "categoryName", Undefined)
                 = rq[p].body.name]_vars

\* C10 (as claimed): with no request in progress, every transaction with a
\* category references a stored category and carries its current name.
C10_CategoryRefsValid ==
  (\A p \in Procs : pc[p] = "idle")
  => \A u \in Users : \A id \in DOMAIN tx[u] :
       LET c == Field(tx[u][id], "category", NoCat)
       IN c # NoCat
          => /\ c \in DOMAIN cats[u]
             /\ Field(tx[u][id], "categoryName", Undefined)
                  = Field(cats[u][c], "name", Undefined)

(***************************************************************************)
(* Properties of the account handlers.                                     *)
(***************************************************************************)
\* the collection without the transactions of one account
WithoutAccount(col, accountId) ==
  [id \in {i \in DOMAIN col :
             Field(col[i], "account_id", Undefined) # accountId} |-> col[id]]

\* C11: DELETE /accounts/:id of a stored account with deleteTransactions true
\* removes exactly the transactions whose account_id is that account and
\* leaves the others as they were; without deleteTransactions it leaves every
\* transaction as it was; when it answers 200 the account record is gone.
C11_AccountDeleteFrame ==
  [][\A p \in Procs :
       LET r == IF pc[p] = "idle" THEN rq'[p] ELSE rq[p]
       IN (r.op = "deleteAccount" /\ (pc'[p] # pc[p] \/ rq'[p] # rq[p]))
          => /\ IF pc[p] = "acct_batch" /\ pc'[p] = "acct_delete"
                THEN tx'[r.uid] = WithoutAccount(tx[r.uid], r.accountId)
                ELSE tx' = tx
             /\ (pc'[p] = "idle" /\ resp'[p].status = 200)
                => /\ r.accountId \notin DOMAIN accounts'[r.uid]
                   /\ r.deleteTransactions
                      => transactionsOfAccount(tx'[r.uid], r.accountId) = {}]_vars

\* a cascade has deleted the transactions of one account and kept another's
C11_Witness ==
  \E p \in Procs :
    /\ pc[p] = "acct_delete"
    /\ rq[p].deleteTransactions
    /\ loc[p].transactionIds # {}
    /\ DOMAIN tx[rq[p].uid] # {}

(***************************************************************************)
(* Properties of the budget handlers.                                      *)
(***************************************************************************)
BudgetConflicts ==
  {"User can only have one budget for now", "Account already initialized"}

\* C12: a POST /budgets or POST /initialize-account starts creating only for
\* a user without budget; the 400 answer it gets otherwise is sent at once
\* and with it neither the budgets nor the categories change.
C12_SecondBudgetRejected ==
  [][\A p \in Procs :
       /\ (pc[p] = "idle" /\ pc'[p] = "budget_set")
          => /\ rq'[p].op \in {"createBudget", "initializeAccount"}
             /\ DOMAIN budgets[rq'[p].uid] = {}
       /\ (/\ pc'[p] = "idle"
           /\ resp'[p] # resp[p]
           /\ resp'[p].status = 400
           /\ "error" \in DOMAIN resp'[p]
           /\ resp'[p].error \in BudgetConflicts)
          => /\ pc[p] = "idle"
             /\ \E u \in Users : DOMAIN budgets[u] # {}
             /\ budgets' = budgets
             /\ cats' = cats]_vars

\* a creation request was rejected while a budget with a category is stored
C12_Witness ==
  \E p \in Procs, u \in Users :
    /\ pc[p] = "idle"
    /\ resp[p].status = 400
    /\ "error" \in DOMAIN resp[p]
    /\ resp[p].error \in BudgetConflicts
    /\ DOMAIN budgets[u] # {}
    /\ DOMAIN cats[u] # {}

\* C13 (as claimed): a user never has more than one budget, whatever the
\* interleaving of the creation requests.
C13_AtMostOneBudget ==
  \A u \in Users : Cardinality(DOMAIN budgets[u]) <= 1

(***************************************************************************)
(* Properties of the credential check.                                     *)
(***************************************************************************)
\* the labels at which a handler calls the provider
ProviderCalls == {"sync_page", "acc_get", "acc_inst"}

\* C14: a sync or an account refresh of a user without credential is answered
\* 400 "Bank not linked" at once: it never reaches a provider call and the
\* credentials, the accounts and the transactions stay as they were.
C14_BankNotLinked ==
  [][\A p \in Procs :
       /\ (pc[p] = "idle" /\ pc'[p] \in ProviderCalls)
          => rq'[p].uid \in DOMAIN cred
       /\ (/\ pc'[p] = "idle"
           /\ resp'[p] # resp[p]
           /\ resp'[p].status = 400
           /\ "error" \in DOMAIN resp'[p]
           /\ resp'[p].error = "Bank not linked")
          => /\ pc[p] = "idle"
             /\ \E u \in Users : u \notin DOMAIN cred
             /\ cred' = cred
             /\ accounts' = accounts
             /\ tx' = tx]_vars

\* a request of a user without credential was answered "Bank not linked"
C14_Witness ==
  \E p \in Procs, u \in Users :
    /\ pc[p] = "idle"
    /\ resp[p].status = 400
    /\ "error" \in DOMAIN resp[p]
    /\ resp[p].error = "Bank not linked"
    /\ u \notin DOMAIN cred

(***************************************************************************)
(* Properties of the paging loop.                                          *)
(***************************************************************************)
\* the lists of the pages a+1 .. b of the log, one after another
RECURSIVE PagesOf(_, _, _)
PagesOf(log, a, b) ==
  IF b <= a THEN [added |-> <<>>, modified |-> <<>>, removed |-> <<>>]
  ELSE LET front == PagesOf(log, a, b - 1)
       IN [added |-> front.added \o log[b].added,
           modified |-> front.modified \o log[b].modified,
           removed |-> front.removed \o log[b].removed]

\* the labels of a sync call from its first page request to its commit
Syncing == {"sync_page", "sync_cats", "sync_commit"}

\* C15: the first page request of a sync carries the stored cursor (0 when
\* none is stored); each later one carries the next_cursor of the response
\* before it; the loop asks again exactly when that response had more pages;
\* the lists hold the pages read, in page order.
C15_PagingChained ==
  [][\A p \in Procs :
       /\ (pc[p] = "idle" /\ pc'[p] = "sync_page")
          => /\ loc'[p].nextCursor = Field(cred[rq'[p].uid], "cursor", 0)
             /\ loc'[p].savedCursor = loc'[p].nextCursor
       /\ (/\ pc[p] = "sync_page"
           /\ pc'[p] # "idle"
           /\ (pc'[p] # pc[p] \/ loc'[p] # loc[p]))
          => LET c == loc[p].nextCursor
             IN IF c < Len(provider)
                THEN /\ loc'[p].nextCursor = c + 1
                     /\ loc'[p].added = loc[p].added \o provider[c + 1].added
                     /\ pc'[p] = "sync_page" <=> c + 1 < Len(provider)
                     /\ pc'[p] = "sync_cats" <=> c + 1 = Len(provider)
                ELSE /\ loc'[p].nextCursor = c
                     /\ loc'[p].added = loc[p].added
                     /\ pc'[p] = "sync_cats"
       /\ pc'[p] \in Syncing
          => LET read == PagesOf(provider', loc'[p].savedCursor,
                                 loc'[p].nextCursor)
             IN /\ loc'[p].added = read.added
                /\ loc'[p].modified = read.modified
                /\ loc'[p].removed = read.removed]_vars

\* a sync call has read two pages
C15_Witness ==
  \E p \in Procs :
    /\ pc[p] = "sync_cats"
    /\ loc[p].nextCursor >= loc[p].savedCursor + 2
    /\ loc[p].added # <<>>

\* C16: a sync call whose page requests are all answered, the last of them
\* with has_more = false, ends: from the paging loop it reaches its response.
C16_SyncTerminates ==
  \A p \in {1} : (pc[p] \in Syncing) ~> (pc[p] = "idle")

\* a sync call has answered after it read and committed two pages
C16_Witness ==
  \E p \in Procs :
    /\ pc[p] = "idle"
    /\ resp[p].status = 200
    /\ "added" \in DOMAIN resp[p]
    /\ resp[p].added + resp[p].modified + resp[p].removed >= 2

(***************************************************************************)
(* Properties of the removal markers.                                      *)
(***************************************************************************)
\* a document without one of its fields
WithoutField(doc, f) == [g \in (DOMAIN doc) \ {f} |-> doc[g]]

\* the step is one of slot p serving a request of operation op
StepOf(p, op) ==
  /\ pc'[p] # pc[p] \/ loc'[p] # loc[p] \/ resp'[p] # resp[p]
  /\ (IF pc[p] = "idle" THEN rq'[p] ELSE rq[p]).op = op

C18_HardDeleteOnlyExplicit ==
  [][\A u \in Users : \A id \in (DOMAIN tx[u]) \ (DOMAIN tx'[u]) :
       \E p \in Procs :
         /\ pc[p] # "idle"
         /\ pc'[p] # pc[p]
         /\ rq[p].uid = u
         /\ \/ /\ rq[p].op = "deleteTransaction"
               /\ rq[p].transactionId = id
            \/ /\ rq[p].op = "deleteAccount"
               /\ rq[p].deleteTransactions
               /\ Field(tx[u][id], "account_id", Undefined) = rq[p].accountId]_vars

\* a transaction was deleted on request while another one stays stored
C18_Witness ==
  \E p \in Procs, u \in Users :
    /\ pc[p] = "idle"
    /\ resp[p].status = 200
    /\ "message" \in DOMAIN resp[p]
    /\ resp[p].message = "Transaction deleted successfully"
    /\ DOMAIN tx[u] # {}

(***************************************************************************)
(* Properties of the category handlers.                                    *)
(***************************************************************************)
CategoryOps == {"createCategory", "updateCategory", "deleteCategory"}

\* C19: POST, PUT and DELETE /categories write the category first and go on
\* to the reconciliation; they answer only when it is over, with
\* recategorized = the number of transactions it rewrote, and what it
\* computed is the assignment against the categories with the change in.
C19_CategoryWriteThenReconcile ==
  [][\A p \in Procs :
       /\ (pc[p] = "idle" /\ rq'[p].op \in CategoryOps)
          => LET u == rq'[p].uid
                 c == rq'[p].categoryId
             IN /\ pc'[p] = "rec_cats"
                /\ rq'[p].op = "createCategory"
                   => c \notin DOMAIN cats[u] /\ c \in DOMAIN cats'[u]
                /\ rq'[p].op = "deleteCategory" => c \notin DOMAIN cats'[u]
                /\ rq'[p].op = "updateCategory"
                   => \A f \in DOMAIN rq'[p].body :
                        cats'[u][c][f] = rq'[p].body[f]
       /\ (/\ pc[p] # "idle"
           /\ rq[p].op \in CategoryOps
           /\ pc'[p] = "idle"
           /\ resp'[p].status = 200)
          => LET u == rq[p].uid
             IN /\ pc[p] \in {"rec_txs", "rec_commit"}
                /\ loc[p].categories = categoriesOf(u)
                /\ resp'[p].recategorized
                     = Cardinality({id \in DOMAIN tx[u] : tx'[u][id] # tx[u][id]})
                /\ recBatch(loc[p].categories, tx'[u]) = {}]_vars

\* a category request was answered with recategorized > 0
C19_Witness ==
  \E p \in Procs :
    /\ pc[p] = "idle"
    /\ resp[p].status = 200
    /\ DOMAIN resp[p] = {"status", "recategorized"}
    /\ resp[p].recategorized > 0

\* the request changes categories outside the three category handlers
MutatesCategories(r) ==
  \/ r.op = "categorize" /\ r.applyToSimilar
  \/ r.op = "deleteBudget"
  \/ r.op = "initializeAccount"
  \/ r.op = "createBudget" /\ r.body.categories # <<>>

\* C20 (as claimed): when a request that changed categories answers 200, the
\* transactions are reconciled with the categories: no transaction's stored
\* category differs from the one the matching assigns.
C20_EveryCategoryMutationReconciles ==
  [][\A p \in Procs :
       (/\ pc[p] # "idle"
        /\ pc'[p] = "idle"
        /\ resp'[p].status = 200
        /\ rq[p].op \in CategoryOps \/ MutatesCategories(rq[p]))
       => \A u \in Users :
            u = rq[p].uid => recBatch(categoriesOf(u)', tx'[u]) = {}]_vars

(***************************************************************************)
(* Properties of reconciliation as a whole.                                *)
(***************************************************************************)
\* the category id the matching gives a stored transaction
matchedCategoryId(categories, transaction) ==
  assignedCategoryOf(categories,
     [name |-> Field(transaction, "name", Undefined),
      merchant_name |-> Field(transaction, "merchant_name", Undefined),
      pf_category |-> Field(transaction, "pf_category", Undefined)]).id

\* the labels from which recategorizeAllTransactions returns
RecReturns == {"rec_txs", "rec_commit"}

\* C21: when a reconciliation has completed, with requests served one after
\* another, the stored category id of every transaction of the user is the
\* one the matching gives for that transaction and the categories now stored
\* (null when nothing matches), whatever requests came before.
C21_ReconcileFixedPoint ==
  [][\A p \in Procs :
       (pc[p] \in RecReturns /\ pc'[p] = "idle" /\ resp'[p].status = 200)
       => \A u \in Users :
            u = rq[p].uid
            => \A id \in DOMAIN tx'[u] :
                 Field(tx'[u][id], "category", NoCat)
                   = matchedCategoryId(categoriesOf(u)', tx'[u][id])]_vars

\* a reconciliation has taken a category away from a transaction that had
\* one which the matching does not give
C21_Witness ==
  \E p \in Procs, u \in Users :
    /\ pc[p] = "idle"
    /\ resp[p].status = 200
    /\ \/ "updated" \in DOMAIN resp[p] /\ resp[p].updated > 0
       \/ "recategorized" \in DOMAIN resp[p] /\ resp[p].recategorized > 0
    /\ \E id \in DOMAIN tx[u] :
         /\ "categoryName" \in DOMAIN tx[u][id]
         /\ tx[u][id].category = NoCat
         /\ matchedCategoryId(categoriesOf(u), tx[u][id]) = NoCat

\* C22: the commit of a reconciliation rewrites category and categoryName of
\* the transactions whose stored category id differs from the recomputed one
\* and leaves every other transaction, the categories and the credential as
\* they were; a reconciliation that finds no difference writes nothing; the
\* count it returns as updated is the number of transactions written, total
\* is the number of stored transactions, and 0 <= updated <= total.
C22_ReconcileFrame ==
  [][\A p \in Procs :
       (pc[p] \in RecReturns /\ pc'[p] = "idle" /\ resp'[p].status = 200)
       => LET u == rq[p].uid
              differs == {id \in DOMAIN tx[u] :
                            Field(tx[u][id], "category", NoCat)
                              # matchedCategoryId(loc[p].categories, tx[u][id])}
              written == {id \in DOMAIN tx[u] : tx'[u][id] # tx[u][id]}
              updated == IF "updated" \in DOMAIN resp'[p]
                         THEN resp'[p].updated ELSE resp'[p].recategorized
          IN /\ DOMAIN tx'[u] = DOMAIN tx[u]
             /\ written = differs
             /\ \A id \in written :
                  /\ DOMAIN tx'[u][id]
                       = (DOMAIN tx[u][id]) \cup {"category", "categoryName"}
                  /\ \A f \in (DOMAIN tx[u][id]) \ {"category", "categoryName"} :
                       tx'[u][id][f] = tx[u][id][f]
             /\ pc[p] = "rec_txs" => written = {}
             /\ cats' = cats
             /\ cred' = cred
             /\ updated = Cardinality(written)
             /\ "total" \in DOMAIN resp'[p]
                => /\ resp'[p].total = Cardinality(DOMAIN tx[u])
                   /\ 0 <= updated
                   /\ updated <= resp'[p].total]_vars

\* POST /recategorize has rewritten one transaction of two
C22_Witness ==
  \E p \in Procs :
    /\ pc[p] = "idle"
    /\ resp[p].status = 200
    /\ "total" \in DOMAIN resp[p]
    /\ resp[p].total >= 2
    /\ resp[p].updated >= 1
    /\ resp[p].updated < resp[p].total

(***************************************************************************)
(* Properties of the handlers that look a document up by its id.           *)
(***************************************************************************)
NotFoundErrors ==
  {"Transaction not found", "Category not found", "Account not found"}

\* C23: a handler that is given the id of a document goes on only when the
\* document is stored: manual assignment needs the transaction and the
\* category, transaction edit and delete the transaction, account delete the
\* account.  The 404 answer is sent at once, names what is missing, and with
\* it no stored record changes.
C23_UnknownIdRejected ==
  [][\A p \in Procs :
       /\ (pc[p] = "idle" /\ pc'[p] # "idle")
          => LET r == rq'[p]
             IN /\ r.op = "categorize"
                   => /\ r.transactionId \in DOMAIN tx[r.uid]
                      /\ r.categoryId \in DOMAIN cats[r.uid]
                /\ r.op \in {"editTransaction", "deleteTransaction"}
                   => r.transactionId \in DOMAIN tx[r.uid]
                /\ r.op = "deleteAccount"
                   => r.accountId \in DOMAIN accounts[r.uid]
       /\ (resp'[p] # resp[p] /\ resp'[p].status = 404)
          => /\ pc[p] = "idle"
             /\ pc'[p] = "idle"
             /\ resp'[p].error \in NotFoundErrors
             /\ resp'[p].error = "Transaction not found"
                => \E u \in Users : TxIds \ DOMAIN tx[u] # {}
             /\ resp'[p].error = "Category not found"
                => \E u \in Users : CatIds \ DOMAIN cats[u] # {}
             /\ resp'[p].error = "Account not found"
                => \E u \in Users : AccountIds \ DOMAIN accounts[u] # {}
             /\ cred' = cred
             /\ cats' = cats
             /\ budgets' = budgets
             /\ accounts' = accounts
             /\ tx' = tx]_vars

\* a manual assignment of a stored transaction to an unknown category was
\* answered 404
C23_Witness ==
  \E p \in Procs, u \in Users :
    /\ pc[p] = "idle"
    /\ resp[p] = [status |-> 404, error |-> "Category not found"]
    /\ DOMAIN tx[u] # {}
    /\ \E id \in DOMAIN tx[u] : "categoryName" \in DOMAIN tx[u][id]

(***************************************************************************)
(* Properties of manual assignment.                                        *)
(***************************************************************************)
\* the position of the first occurrence of x in seq
FirstIndex(seq, x) == CHOOSE i \in 1..Len(seq) :
                        seq[i] = x /\ \A j \in 1..(i - 1) : seq[j] # x

NoDuplicates(seq) == \A i, j \in 1..Len(seq) : seq[i] = seq[j] => i = j

\* C24: the transaction write of a manual assignment sets category to the
\* chosen id and categoryName to the name of that category and leaves the
\* categories alone; without applyToSimilar the request ends there.  With
\* applyToSimilar the keyword write leaves the category with its previous
\* keywords, then the lowercased transaction name, then the lowercased
\* merchant name when there is one, each keyword once at the place of its
\* first occurrence: no previous keyword is lost.
C24_ManualAssignment ==
  [][\A p \in Procs :
       /\ (pc[p] = "assign_tx" /\ pc'[p] # pc[p])
          => LET u == rq[p].uid
                 id == rq[p].transactionId
                 c == rq[p].categoryId
             IN /\ tx'[u][id].category = c
                /\ tx'[u][id].categoryName = cats[u][c].name
                /\ \A f \in (DOMAIN tx[u][id]) \ {"category", "categoryName"} :
                     tx'[u][id][f] = tx[u][id][f]
                /\ \A other \in (DOMAIN tx[u]) \ {id} : tx'[u][other] = tx[u][other]
                /\ cats' = cats
                /\ pc'[p] = "assign_keywords" <=> rq[p].applyToSimilar
                /\ ~rq[p].applyToSimilar => resp'[p].status = 200
       /\ (pc[p] = "assign_keywords" /\ pc'[p] # pc[p])
          => LET u == rq[p].uid
                 c == rq[p].categoryId
                 t == tx[u][rq[p].transactionId]
                 previous == cats[u][c].keywords
                 appended == <<ToLowerCase(t.name)>>
                               \o (IF t.merchant_name = "" THEN <<>>
                                   ELSE <<ToLowerCase(t.merchant_name)>>)
                 all == previous \o appended
                 keywords == cats'[u][c].keywords
             IN /\ resp'[p].status = 200
                /\ NoDuplicates(keywords)
                /\ Range(keywords) = Range(all)
                /\ \A i, j \in 1..Len(keywords) :
                     i < j => FirstIndex(all, keywords[i])
                                < FirstIndex(all, keywords[j])
                /\ SubSeq(keywords, 1, Len(previous)) = previous
                /\ cats'[u][c].name = cats[u][c].name
                /\ \A other \in (DOMAIN cats[u]) \ {c} :
                     cats'[u][other] = cats[u][other]
                /\ tx' = tx]_vars

\* "Shell Oil" of merchant "SHELL OIL" was assigned to the category with the
\* keyword "foo" with applyToSimilar: the category got "shell oil" once
C24_Witness ==
  \E p \in Procs, u \in Users, c \in CatIds :
    /\ pc[p] = "idle"
    /\ resp[p] = [status |-> 200]
    /\ c \in DOMAIN cats[u]
    /\ cats[u][c].keywords = <<"foo", "shell oil">>
    /\ "t1" \in DOMAIN tx[u]
    /\ tx[u]["t1"].category = c
    /\ tx[u]["t1"].categoryName = cats[u][c].name

(***************************************************************************)
(* Properties of the account handlers under failure.                       *)
(***************************************************************************)
\* C25 (as claimed): the cascade of DELETE /accounts/:id is one atomic
\* multi-delete: the step that takes the transactions of the account out of
\* the store takes the Account record out with them, so no state holds the
\* account without its transactions.
C25_CascadeAtomic ==
  [][\A p \in Procs :
       (/\ pc[p] # "idle"
        /\ pc'[p] # pc[p]
        /\ rq[p].op = "deleteAccount"
        /\ rq[p].deleteTransactions
        /\ transactionsOfAccount(tx[rq[p].uid], rq[p].accountId) # {}
        /\ transactionsOfAccount(tx'[rq[p].uid], rq[p].accountId) = {})
       => rq[p].accountId \notin DOMAIN accounts'[rq[p].uid]]_vars

\* C26 (as claimed): the institution lookup of an account refresh never ends
\* the call: whether it answers or fails, the handler goes on to read and
\* upsert the accounts.
C26_LogoFailureNonFatal ==
  [][\A p \in Procs :
       (pc[p] = "acc_inst" /\ pc'[p] # pc[p]) => pc'[p] = "acc_read"]_vars

(***************************************************************************)
(* Properties of verifyToken.                                              *)
(***************************************************************************)
\* the labels of a request that no route handler has been given yet
BeforeHandler == {"idle", "auth", "verify"}

MappingFields ==
  {"account_id", "name", "merchant_name", "amount", "outflow", "inflow",
   "pf_category", "category", "categoryName"}

\* the last transaction of ts with the given id
LastOf(ts, id) ==
  ts[CHOOSE k \in 1..Len(ts) :
       /\ ts[k].transaction_id = id
       /\ \A j \in (k + 1)..Len(ts) : ts[j].transaction_id # id]

\* C28: the commit of a sync leaves each transaction of added and modified
\* stored under its transaction id with the provider's values in the fields
\* of the mapping; when the transaction was stored before, every field the
\* mapping does not write keeps its stored value (the removed marker too,
\* unless the same call removes the id), and no other field appears.
C28_UpsertMerges ==
  [][\A p \in Procs :
       (pc[p] = "sync_commit" /\ pc'[p] = "rec_cats")
       => LET u == rq[p].uid
              ts == loc[p].added \o loc[p].modified
          IN \A id \in IdsOf(ts) :
               LET t == LastOf(ts, id)
                   old == IF id \in DOMAIN tx[u] THEN tx[u][id] ELSE NoFields
                   new == tx'[u][id]
               IN /\ new.account_id = t.account_id
                  /\ new.name = (IF t.name = Undefined THEN "" ELSE t.name)
                  /\ new.merchant_name
                       = (IF t.merchant_name = Null THEN "" ELSE t.merchant_name)
                  /\ new.amount = t.amount * 100
                  /\ new.pf_category = (IF t.pf = Undefined THEN Null ELSE t.pf)
                  /\ MappingFields \subseteq DOMAIN new
                  /\ \A f \in (DOMAIN old) \ MappingFields :
                       /\ f \in DOMAIN new
                       /\ new[f] = old[f]
                  /\ id \notin Range(loc[p].removed)
                     => DOMAIN new = (DOMAIN old) \cup MappingFields]_vars

\* a sync has upserted again a transaction that was stored with the removed
\* marker: the marker is still there, next to the provider's values
C28_Witness ==
  \E p \in Procs :
    /\ pc[p] = "rec_cats"
    /\ rq[p].op = "sync"
    /\ \E id \in IdsOf(loc[p].added \o loc[p].modified) :
         /\ id \notin Range(loc[p].removed)
         /\ "removed" \in DOMAIN tx[rq[p].uid][id]
         /\ tx[rq[p].uid][id].removed = TRUE
         /\ tx[rq[p].uid][id].name = "FOOBAR Cafe"

(***************************************************************************)
(* Properties of the budget cascade.                                       *)
(***************************************************************************)
\* C29: DELETE /budgets/:id first takes the Budget record of that id out of
\* the store and nothing else; its second write takes out exactly the
\* categories whose budgetId is that id.  A category of another budget or
\* without budgetId stays as it was, and so do the other budgets and the
\* transactions.
C29_BudgetCascade ==
  [][\A p \in Procs :
       /\ (pc[p] = "idle" /\ pc'[p] = "budget_del")
          => LET u == rq'[p].uid
                 b == rq'[p].budgetId
             IN /\ DOMAIN budgets'[u] = (DOMAIN budgets[u]) \ {b}
                /\ \A other \in DOMAIN budgets'[u] :
                     budgets'[u][other] = budgets[u][other]
                /\ cats' = cats
                /\ tx' = tx
       /\ (pc[p] = "budget_del" /\ pc'[p] = "idle" /\ resp'[p].status = 200)
          => LET u == rq[p].uid
                 b == rq[p].budgetId
                 kept == {c \in DOMAIN cats[u] :
                            \/ "budgetId" \notin DOMAIN cats[u][c]
                            \/ cats[u][c].budgetId # b}
             IN /\ b \notin DOMAIN budgets'[u]
                /\ DOMAIN cats'[u] = kept
                /\ \A c \in kept : cats'[u][c] = cats[u][c]
                /\ budgets' = budgets
                /\ tx' = tx]_vars

\* the Budget record is gone and the cascade is about to run on a store that
\* holds a category of that budget and a category without budget
C29_Witness ==
  \E p \in Procs :
    /\ pc[p] = "budget_del"
    /\ rq[p].budgetId \notin DOMAIN budgets[rq[p].uid]
    /\ categoriesOfBudget(cats[rq[p].uid], rq[p].budgetId) # {}
    /\ \E c \in DOMAIN cats[rq[p].uid] :
         "budgetId" \notin DOMAIN cats[rq[p].uid][c]

Labels == {Null} \cup {plaidMappings[b].plaidCat : b \in 1..Len(plaidMappings)}

\* C31: when some keyword of some category matches the search string of a
\* transaction, the assigned category is the keyword match (the first
\* category with a matching keyword), whatever the provider label says: the
\* same transaction under any other label is assigned the same category.
C31_KeywordBeforeFallback ==
  (m_out # NoFields /\ m_out.fn = "assignedCategory"
     /\ m_in.transaction.name # Undefined
     /\ KeywordHits(m_in.categories, m_in.transaction) # {})
  => /\ m_out.result
          = m_in.categories[Least(KeywordHits(m_in.categories, m_in.transaction))]
     /\ \A pf \in Labels :
          assignedCategoryOf(m_in.categories,
                             [m_in.transaction EXCEPT !.pf_category = pf])
            = m_out.result

\* "FOOBAR Cafe" with label FOOD_AND_DRINK: the first category ("Restaurant")
\* is what the fallback would give, the second ("foo") matches by keyword and
\* is the one assigned
C31_Witness ==
  /\ m_out # NoFields
  /\ m_out.fn = "assignedCategory"
  /\ m_in.transaction.name = "FOOBAR Cafe"
  /\ m_in.transaction.pf_category = "FOOD_AND_DRINK"
  /\ Len(m_in.categories) = 2
  /\ m_in.categories[1].keywords = <<"Restaurant">>
  /\ m_in.categories[2].keywords = <<"foo">>
  /\ m_out.result.id = 2

\* C32: for every provider transaction, one with a missing name or merchant
\* name included, and every category list, the category the sync upsert
\* writes equals the category recategorizeAllTransactions computes for the
\* record then stored.
C32_SyncEqualsReconcile ==
  (m_out # NoFields /\ m_out.fn = "syncUpsert")
  => m_out.written = m_out.reconciled

(***************************************************************************)
(* Properties of the removed list.                                         *)
(***************************************************************************)
\* C33: the commit of a sync creates no record for an id of the removed list
\* that has no record and is not upserted by the same call.
C33_RemovedCreatesNoRecord ==
  [][\A p \in Procs :
       (pc[p] = "sync_commit" /\ pc'[p] = "rec_cats")
       => LET u == rq[p].uid
          IN \A id \in Range(loc[p].removed)
                         \ IdsOf(loc[p].added \o loc[p].modified) :
               id \notin DOMAIN tx[u] => id \notin DOMAIN tx'[u]]_vars

C35_ReconcileAtomic ==
  [][\A p \in Procs :
       (pc[p] = "rec_commit" /\ pc'[p] = "idle")
       => LET u == rq[p].uid
              batch == recBatch(loc[p].categories, loc[p].transactions)
              applied == {id \in batch \cap DOMAIN tx[u] :
                            tx'[u][id] # tx[u][id]}
          IN \/ /\ applied = batch
                /\ \A id \in batch :
                     tx'[u][id] = Merge(tx[u][id],
                                        recUpdate(loc[p].categories,
                                                  loc[p].transactions[id]))
                /\ resp'[p].status = 200
             \/ /\ batch \ DOMAIN tx[u] # {}
                /\ tx' = tx
                /\ resp'[p].status = 500]_vars

\* a reconciliation that had two transactions to update failed at its commit
\* because one of them was deleted meanwhile; the other one is still stored
\* with the category it had, not the one the matching gives it
C35_Witness ==
  /\ pc[1] = "idle"
  /\ resp[1] = [status |-> 500, error |-> "commit"]
  /\ \E u \in Users :
       /\ resp[2] = [status |-> 200,
                     message |-> "Transaction deleted successfully"]
       /\ Cardinality(DOMAIN tx[u]) = 1
       /\ Cardinality(DOMAIN cats[u]) = 1
       /\ recBatch(categoriesOf(u), tx[u]) = DOMAIN tx[u]

(***************************************************************************)
(* Properties of a sync whose reconciliation fails.                        *)
(***************************************************************************)
\* C36: when the reconciliation that follows the commit of a sync fails, the
\* call answers 500 and the step undoes nothing: the Transaction Store and
\* the credential stay as the commit left them, the stored cursor is the one
\* the call advanced to and the store holds the deltas up to it; the next
\* sync call starts from that cursor.
C36_ReconcileFailureKeepsCommit ==
  [][\A p \in Procs :
       /\ (/\ pc[p] \in {"rec_cats", "rec_txs", "rec_commit"}
           /\ rq[p].op = "sync"
           /\ pc'[p] = "idle"
           /\ resp'[p].status # 200)
          => LET u == rq[p].uid
             IN /\ resp'[p].status = 500
                /\ tx' = tx
                /\ cred' = cred
                /\ CursorOf(cred', u) = loc[p].nextCursor
                /\ SyncView(tx'[u])
                     = SyncView(Replay(NoDocs, provider, 0, loc[p].nextCursor))
       /\ (pc[p] = "idle" /\ pc'[p] = "sync_page")
          => loc'[p].nextCursor = CursorOf(cred, rq'[p].uid)]_vars

\* a sync committed a page and answered 500 because its reconciliation
\* failed; the next sync call has started from the cursor after that page
C36_Witness ==
  \E p \in Procs :
    /\ resp[p] = [status |-> 500, error |-> "reconcile"]
    /\ pc[p] = "sync_page"
    /\ loc[p].savedCursor > 0
    /\ loc[p].savedCursor = CursorOf(cred, rq[p].uid)
    /\ DOMAIN tx[rq[p].uid] # {}

(***************************************************************************)
(* Properties of the token exchange.                                       *)
(***************************************************************************)
\* the answers of POST /exchange-public-token
ExchangeAnswers ==
  {[status |-> 200], [status |-> 400], [status |-> 500, error |-> "provider"]}

\* C38: a token exchange writes nothing but the access token and the item id
\* of a credential (updatedAt is not modelled): every other field, the cursor
\* and lastSyncAt among them, keeps its value and no field is dropped.  An
\* exchange that answers 400 (no public_token) or 500 (the provider refused)
\* leaves every credential as it was, stored or absent; one that answers 200
\* leaves a credential with the tokens of the provider.
C38_ExchangeFrame ==
  [][\A p \in Procs :
       (/\ pc[p] = "idle" /\ pc'[p] = "idle"
        /\ nreq' = nreq + 1
        /\ resp'[p] \in ExchangeAnswers)
       => /\ \A u \in Users :
               LET old == CredOf(cred, u)
                   new == CredOf(cred', u)
               IN /\ \A f \in (DOMAIN old) \ {"access_token", "item_id"} :
                       f \in DOMAIN new /\ new[f] = old[f]
                  /\ DOMAIN new \subseteq (DOMAIN old) \cup {"access_token", "item_id"}
                  /\ CursorOf(cred', u) = CursorOf(cred, u)
                  /\ LastSyncOf(cred', u) = LastSyncOf(cred, u)
          /\ resp'[p].status # 200 => cred' = cred
          /\ resp'[p].status = 200
             => \E u \in Users :
                  /\ u \in DOMAIN cred'
                  /\ cred'[u].access_token = "access-1"
                  /\ cred'[u].item_id = "item-1"
          /\ tx' = tx]_vars

\* the bank was linked again after a sync had stored a cursor: the credential
\* still holds the cursor and lastSyncAt
C38_Witness ==
  \E p \in Procs, u \in Users :
    /\ pc[p] = "idle"
    /\ resp[p] = [status |-> 200]
    /\ CursorOf(cred, u) > 0
    /\ LastSyncOf(cred, u) > 0
    /\ DOMAIN tx[u] # {}

(***************************************************************************)
(* Properties of the transaction edit.                                     *)
(***************************************************************************)
\* C39: the update of PUT /transactions/:id changes only the fields of the
\* request body (and categoryName when the body has a category); when the
\* body sets category to an id, the stored categoryName is then the name of
\* the category with that id; when it sets category to null or '', the
\* categoryName is null; when the body has no category, category and
\* categoryName keep their values.
C39_EditKeepsCategoryConsistent ==
  [][\A p \in Procs :
       (pc[p] = "edit_update" /\ pc'[p] = "idle" /\ resp'[p].status = 200)
       => LET u == rq[p].uid
              body == rq[p].body
              old == tx[u][rq[p].transactionId]
              new == tx'[u][rq[p].transactionId]
          IN /\ \A f \in (DOMAIN old) \ ((DOMAIN body) \cup {"categoryName"}) :
                  f \in DOMAIN new /\ new[f] = old[f]
             /\ \A f \in DOMAIN body : new[f] = body[f]
             /\ "category" \notin DOMAIN body
                => Field(new, "categoryName", Undefined)
                     = Field(old, "categoryName", Undefined)
             /\ ("category" \in DOMAIN body /\ body.category = NoCat)
                => new.categoryName = Null
             /\ ("category" \in DOMAIN body /\ body.category # NoCat)
                => /\ body.category \in DOMAIN cats'[u]
                   /\ new.categoryName = cats'[u][body.category].name]_vars

(***************************************************************************)
(* Properties of the per-user scoping.                                     *)
(***************************************************************************)
\* C37: with the records of a second user in the store, no step of a request
\* changes a record of the second user (credential, categories, budgets,
\* accounts, transactions), and what the caller gets is decided by the
\* caller's own records: a lookup goes on only for an id stored under the
\* caller, a budget is refused only when the caller has one, a sync matches
\* against the caller's categories, and a reconciliation leaves the caller's
\* transactions with the matching on the caller's categories and counts the
\* caller's transactions.
C37_TenantIsolation ==
  [][/\ \A v \in Others :
          /\ CredOf(cred', v) = CredOf(cred, v)
          /\ cats'[v] = cats[v]
          /\ budgets'[v] = budgets[v]
          /\ accounts'[v] = accounts[v]
          /\ tx'[v] = tx[v]
     /\ \A p \in Procs :
          /\ (pc[p] = "idle" /\ pc'[p] # "idle")
             => LET r == rq'[p]
                IN /\ r.uid \in Users
                   /\ r.op = "categorize"
                      => /\ r.transactionId \in DOMAIN tx[r.uid]
                         /\ r.categoryId \in DOMAIN cats[r.uid]
                   /\ r.op \in {"editTransaction", "deleteTransaction"}
                      => r.transactionId \in DOMAIN tx[r.uid]
                   /\ r.op = "deleteAccount"
                      => r.accountId \in DOMAIN accounts[r.uid]
                   /\ r.op \in {"createBudget", "initializeAccount"}
                      => DOMAIN budgets[r.uid] = {}
          /\ (/\ pc[p] = "idle" /\ pc'[p] = "idle"
              /\ resp'[p] # resp[p]
              /\ resp'[p].status = 400
              /\ "error" \in DOMAIN resp'[p]
              /\ resp'[p].error \in BudgetConflicts)
             => \A u \in Users : DOMAIN budgets[u] # {}
          /\ (pc[p] = "sync_cats" /\ pc'[p] = "sync_commit")
             => \A u \in Users :
                  u = rq[p].uid => loc'[p].categories = categoriesOf(u)
          /\ (pc[p] \in RecReturns /\ pc'[p] = "idle" /\ resp'[p].status = 200)
             => \A u \in Users :
                  u = rq[p].uid
                  => /\ \A id \in DOMAIN tx'[u] :
                          Field(tx'[u][id], "category", NoCat)
                            = matchedCategoryId(categoriesOf(u)', tx'[u][id])
                     /\ "total" \in DOMAIN resp'[p]
                        => resp'[p].total = Cardinality(DOMAIN tx[u])]_vars

\* the caller has synced "FOOBAR Cafe" and holds it without category, with
\* no category of their own, while the second user holds the same
\* transaction id under a category with keyword "foo"; then the caller
\* deleted their record and the second user's is still stored
C37_Witness ==
  \E u \in Users, v \in Others :
    /\ pc[1] = "idle"
    /\ resp[1] = [status |-> 200, message |-> "Transaction deleted successfully"]
    /\ CursorOf(cred, u) > 0
    /\ DOMAIN cats[u] = {}
    /\ DOMAIN budgets[u] # {}
    /\ "t1" \notin DOMAIN tx[u]
    /\ "t1" \in DOMAIN tx[v]
    /\ tx[v]["t1"].category = 1
    /\ cats[v] = otherRecords.cats

====
